---- MODULE Spec2Model ----
(***************************************************************************)
(* Customer service (llNABSll/customer-api): the customer store, the      *)
(* CustomerService operations (create / update / delete) and the order     *)
(* event handlers, as units of work that share one relational store.       *)
(*                                                                         *)
(* A unit of work is one HTTP request or one inbound broker message.  It   *)
(* owns a SQLAlchemy session: the first SELECT loads the row into the      *)
(* session (the identity map keeps that snapshot), and db.commit() flushes *)
(* the changed columns with                                                *)
(*     UPDATE clients SET ..., version = v+1 WHERE id = ? AND version = v  *)
(* because the mapper declares version_id_col.  Each database statement    *)
(* is one step.                                                            *)
(*                                                                         *)
(* Spec        several service instances share the store: the steps of two *)
(*             units of work interleave at every database statement.       *)
(* SpecSingle  one instance, one asyncio event loop: a unit of work only   *)
(*             gives way at an await, so its statements run back to back.  *)
(***************************************************************************)
EXTENDS Integers, Sequences, FiniteSets, TLC

\* ------------------------------------------------------------------ bounds
MaxId        == 2   \* ids the store hands out
MaxVersion   == 5   \* highest version a row is driven to
MaxCount     == 3   \* highest orders_count a row is driven to
MaxPublished == 2   \* publish_message calls recorded
MaxOps       == 2   \* units of work started in one behaviour

Workers  == {1, 2}
Dates    == {"2024-01-01", "2024-01-02"}
OrderIds == {77}
\* the customer id that requests and order events name; the other row stands by
TargetIds == {1}
\* ClientCreate payloads offered to POST /customers; country_code character by
\* character: two lower-case letters, none, and text of another length
NewCustomers ==
    { [email |-> {"ada@example.com"}, first_name |-> {"Ada"}, country_code |-> {<<"f", "r">>}],
      [email |-> {"bob@example.com"}, first_name |-> {"Bob"}, country_code |-> {}],
      [email |-> {"ada@example.com"}, first_name |-> {"Ada"},
       country_code |-> {<<" ", "f", "r">>}],
      [email |-> {"bob@example.com"}, first_name |-> {"Bob"},
       country_code |-> {<<"F", "R", "A">>}] }
\* ClientUpdate payloads offered to PUT /customers/{id}, as model_dump(exclude_unset=True)
\* gives them: no field, an email (the stored one or another), a first name
Updates ==
    { [email |-> {}, first_name |-> {}, country_code |-> {}],
      [email |-> {"ada@example.com"}, first_name |-> {}, country_code |-> {}],
      [email |-> {"bob@example.com"}, first_name |-> {}, country_code |-> {}],
      [email |-> {}, first_name |-> {"Bob"}, country_code |-> {}] }
\* JSON bodies sent to PUT /customers/{id}: the payloads above, and one that names
\* columns a caller has no business writing
UpdateBodies ==
    Updates \cup { [email |-> {}, first_name |-> {}, country_code |-> {},
                    orders_count |-> 3, created_at |-> "2000-01-01"] }
\* If-Match headers offered to PUT /customers/{id}, character by character: no header,
\* a version read earlier, and text that is not an integer
IfMatchHeaders ==
    { {}, {<<"1">>}, {<<"2">>}, {<<"a", "b", "c">>}, {<<"1", ".", "0">>} }
\* settings.ROLE_READ and settings.ROLE_WRITE, with their defaults
ROLE_READ  == "customer:read"
ROLE_WRITE == "customer:write"
\* who sends an HTTP request: nobody the service can name (neither the gateway's
\* X-Auth-Request-User header nor a bearer token), the bearer of a token that does
\* not verify, or a user with the roles the gateway header or the token lists
Callers ==
    { [creds |-> "none",      roles |-> {}],
      [creds |-> "bad token", roles |-> {ROLE_WRITE}],
      [creds |-> "user",      roles |-> {ROLE_READ}],
      [creds |-> "user",      roles |-> {ROLE_WRITE}] }
\* created_at values of inbound order events: absent, unparseable, ISO-8601
CreatedAts == { {}, {"not-a-date"}, {"2024-01-01T00:00:00Z"}, {"2024-01-02T00:00:00"} }

\* ----------------------------------------------------------- Optional[T]
None     == {}
Some(x)  == {x}
Val(o)   == CHOOSE x \in o : TRUE
Opt(S)   == {None} \cup {Some(x) : x \in S}


\* ------------------------------------------------------------- the model
VARIABLES
    store,      \* clients table: live id -> row
    nextId,     \* next value of the primary-key sequence (PostgreSQL)
    dialect,    \* the database behind DATABASE_URL
    tasks,      \* per worker: the unit of work it runs, or ran last, with its outcome
    published,  \* messages handed to publish_message, in order
    started     \* units of work started so far

vars == <<store, nextId, dialect, tasks, published, started>>

\* app/models/client.py: the columns of Client the operations read or write
ClientAttrs ==
    {"id", "first_name", "email", "country_code", "orders_count", "last_order_date", "version"}

\* (mutant) a generator that skips a version on every write
version_id_generator_skip(v) == IF v = None THEN 1 ELSE Val(v) + 2

\* (mutant) a generator that counts down
version_id_generator_down(v) == IF v = None THEN 1 ELSE Val(v) - 1

\* Client.__mapper_args__["version_id_generator"]: lambda v: (v or 0) + 1
version_id_generator(v) == IF v = None THEN 1 ELSE Val(v) + 1

\* Client(**client_data.model_dump()) as INSERTed: server defaults (orders_count 0,
\* created_at func.now()) and first version
NewClient(data) ==
    [ email           |-> Val(data.email),
      first_name      |-> Val(data.first_name),
      country_code    |-> data.country_code,
      orders_count    |-> 0,
      last_order_date |-> None,
      created_at      |-> "now",
      version         |-> version_id_generator(None) ]

NoSnap == [ email |-> "", first_name |-> "", country_code |-> None, orders_count |-> 0,
            last_order_date |-> None, created_at |-> "", version |-> 0 ]
NoData == [ email |-> None, first_name |-> None, country_code |-> None ]
NoCaller == [ creds |-> "", roles |-> {} ]
NoEvent == [ rk |-> "", customer_id |-> None, order_id |-> None, reason |-> "" ]

\* a unit of work: the request (op, cid, data, expected, order_id, order_date), the
\* session's loaded instance (snap), the event it hands to publish_message (event),
\* its outcome (result), and what it did: found the row at its lookup, wrote the
\* store, called publish_message (pubs), read the row while another update that
\* carries the same expected version had read it and not yet written (rival)
IdleTask ==
    [ pc |-> "idle", op |-> "", cid |-> None, data |-> NoData, expected |-> None,
      order_id |-> None, order_date |-> None, snap |-> NoSnap, event |-> NoEvent,
      result |-> "", found |-> FALSE, wrote |-> FALSE, pubs |-> 0, rival |-> FALSE,
      broker |-> "", if_match |-> None, raw |-> FALSE, caller |-> NoCaller,
      after_failure |-> FALSE, failures |-> {}, exchange |-> FALSE, consumer |-> FALSE,
      commits |-> 0, rollbacks |-> 0 ]

\* The clients table outlives the process (init_db only creates what is missing):
\* the service starts on the rows earlier runs committed.  The model starts on an
\* empty table, on one customer as create_client stored it, or on two of which one
\* has orders; two fresh customers are one create away from the second.
InitStores ==
    LET ada == NewClient([email |-> Some("ada@example.com"), first_name |-> Some("Ada"),
                          country_code |-> Some(<<"f", "r">>)])
        bob == NewClient([email |-> Some("bob@example.com"), first_name |-> Some("Bob"),
                          country_code |-> None])
        \* Ada after two confirmed orders
        regular == [ada EXCEPT !.orders_count = 2, !.version = 3,
                               !.last_order_date = Some("2024-01-01")]
    IN  { << >>, <<ada>>, <<regular, bob>> }

\* _build_database_url: DATABASE_URL or the POSTGRES_* variables, else the SQLite file
Dialects == {"postgresql", "sqlite"}

Init ==
    /\ store \in InitStores
    /\ nextId = Len(store) + 1
    /\ dialect \in Dialects
    /\ tasks = [w \in Workers |-> IdleTask]
    /\ published = << >>
    /\ started = 0

\* ---------------------------------------------------------------- helpers
Free(w) == tasks[w].pc \in {"idle", "done"}

\* the unit of work of worker w ends with `result`
Finish(w, result) ==
    tasks' = [tasks EXCEPT ![w].pc = "done", ![w].result = result]

\* the unit of work of worker w ends with `result`, having written the store
FinishWrote(w, result) ==
    tasks' = [tasks EXCEPT ![w].pc = "done", ![w].result = result, ![w].wrote = TRUE]

\* the unit of work goes on to await publish_message(ev)
ThenPublish(w, ev, didWrite) ==
    tasks' = [tasks EXCEPT ![w].pc = "publish", ![w].event = ev,
                           ![w].wrote = didWrite \/ tasks[w].wrote]

\* a new unit of work is accepted by the first free worker
CanAccept(w) ==
    /\ Free(w)
    /\ \A u \in Workers : u < w => ~Free(u)
    /\ started < MaxOps

Accept(w, t) ==
    /\ started' = started + 1
    /\ tasks' = [tasks EXCEPT ![w] = t]
    /\ UNCHANGED <<store, nextId, dialect, published>>

\* (mutant) clients.email without its unique constraint
EmailTakenNever(email, id) == FALSE

\* the unique constraint on clients.email, as the store checks it for row `id`
EmailTaken(email, id) ==
    \E other \in DOMAIN store : other # id /\ store[other].email = email

\* building the event payload reads these attributes of the Client instance;
\* an attribute the model does not have raises AttributeError
PayloadRaises(keys) == keys \ ClientAttrs # {}

Columns ==
    {"email", "first_name", "country_code", "orders_count", "last_order_date", "created_at"}

\* (mutant) an UPDATE that matches the row by id alone, whatever its version
FlushOutcomeUnversioned(cid, snap, new) ==
    IF new = snap THEN "clean"
    ELSE IF cid \notin DOMAIN store THEN "stale"
    ELSE IF new.email # snap.email /\ EmailTaken(new.email, cid) THEN "integrity"
    ELSE "written"

\* (mutant) a store without the unique constraint on clients.email
FlushOutcomeNoConstraint(cid, snap, new) ==
    IF new = snap THEN "clean"
    ELSE IF cid \notin DOMAIN store \/ store[cid].version # snap.version THEN "stale"
    ELSE "written"

\* Session.commit() for the instance loaded as `snap` and changed to `new`:
\* nothing is flushed when no column changed; otherwise the versioned UPDATE
\* matches the row only at the version the session read
FlushOutcome(cid, snap, new) ==
    IF new = snap THEN "clean"
    ELSE IF cid \notin DOMAIN store \/ store[cid].version # snap.version THEN "stale"
    ELSE IF new.email # snap.email /\ EmailTaken(new.email, cid) THEN "integrity"
    ELSE "written"

\* a DateTime column without timezone keeps the wall-clock time of the value bound
Naive(dt) ==
    IF dt = None THEN None
    ELSE Some(CHOOSE d \in Dates : Val(dt) \in {d, d \o "+00:00"})

\* (mutant) an UPDATE that writes the changed columns and leaves the version
FlushedSameVersion(row, snap, new) ==
    [ c \in Columns \cup {"version"} |->
        IF c = "version" THEN row.version
        ELSE IF new[c] = snap[c] THEN row[c]
        ELSE IF c = "last_order_date" THEN Naive(new[c])
        ELSE new[c] ]

\* the row after the versioned UPDATE: the changed columns and the next version
Flushed(row, snap, new) ==
    [ c \in Columns \cup {"version"} |->
        IF c = "version" THEN version_id_generator(Some(snap.version))
        ELSE IF new[c] = snap[c] THEN row[c]
        ELSE IF c = "last_order_date" THEN Naive(new[c])
        ELSE new[c] ]

Without(f, k) == [ i \in DOMAIN f \ {k} |-> f[i] ]

\* ------------------------------------------------------------ HTTP: security
\* security.require_user: the AuthContext of the gateway headers or of a verified
\* token; HTTPException(401) for a token that does not verify and for no credentials
require_user(caller) ==
    IF caller.creds = "user" THEN "ok" ELSE "Unauthorized"

\* security.require_read: HTTPException(403) unless the roles hold ROLE_READ
require_read(caller) ==
    IF require_user(caller) # "ok" THEN require_user(caller)
    ELSE IF ROLE_READ \notin caller.roles THEN "Forbidden"
    ELSE "ok"

\* (mutant) a write gate that lets every authenticated user through
require_write_any_user(caller) == require_user(caller)

\* security.require_write: HTTPException(403) unless the roles hold ROLE_WRITE
require_write(caller) ==
    IF require_user(caller) # "ok" THEN require_user(caller)
    ELSE IF ROLE_WRITE \notin caller.roles THEN "Forbidden"
    ELSE "ok"

\* a request its route's dependency turns away: neither body nor path reach the route
TurnedAway(w, op, caller, result) ==
    Accept(w, [IdleTask EXCEPT !.pc = "done", !.op = op, !.caller = caller,
                               !.result = result])

\* ------------------------------------------------------ HTTP: POST /customers
\* ClientBase.country_code: Field(None, min_length=2, max_length=2)
ValidCountryCode(c) == c = None \/ Len(Val(c)) = 2

\* routes.create_customer: require_write is resolved first; then the body is
\* validated as ClientCreate, and a body that fails is answered 422 without reaching
\* the service
create_customer(w) ==
    /\ CanAccept(w)
    /\ \E caller \in Callers :
        IF require_write(caller) # "ok"
        THEN TurnedAway(w, "create", caller, require_write(caller))
        ELSE \E d \in NewCustomers :
            LET t == [IdleTask EXCEPT !.op = "create", !.data = d, !.caller = caller] IN
            IF ValidCountryCode(d.country_code)
            THEN Accept(w, [t EXCEPT !.pc = "create"])
            ELSE Accept(w, [t EXCEPT !.pc = "done", !.result = "RequestValidationError"])

\* the attributes CustomerService.create and update read to build their event
CreatedPayloadAttrs == {"id", "name", "email"}
UpdatedPayloadAttrs == {"id", "name", "email"}

CustomerEvent(rk, id) == [NoEvent EXCEPT !.rk = rk, !.customer_id = Some(id)]

\* (mutant) ids given out by counting the rows
NextKeyByCount == Cardinality(DOMAIN store) + 1

\* the id the INSERT gives the row (Client.id: Integer, primary_key=True).  PostgreSQL
\* draws it from the column's sequence; SQLite, the table being declared without
\* AUTOINCREMENT, takes one more than the largest id in the table
NextKey ==
    IF dialect = "sqlite"
    THEN IF DOMAIN store = {} THEN 1
         ELSE 1 + CHOOSE k \in DOMAIN store : \A j \in DOMAIN store : j <= k
    ELSE nextId

\* the sequence after an INSERT was attempted: PostgreSQL draws the value before it
\* checks the unique constraint, so a refused INSERT uses one up as well; values the
\* store can no longer hand out within MaxId are not told apart
AfterKey ==
    IF dialect = "postgresql" /\ nextId <= MaxId THEN nextId + 1 ELSE nextId

\* CustomerService.create with repo.create_client: INSERT, commit, refresh
create(w) ==
    LET t == tasks[w] IN
    /\ t.pc = "create"
    /\ UNCHANGED <<started, published>>
    /\ IF EmailTaken(Val(t.data.email), 0)
       THEN \* IntegrityError: db.rollback() in create_client, EmailAlreadyExistsError
            /\ tasks' = [tasks EXCEPT ![w].pc = "done", ![w].result = "EmailAlreadyExists",
                                      ![w].rollbacks = t.rollbacks + 1]
            /\ UNCHANGED <<store, dialect>>
            /\ nextId' = AfterKey
       ELSE /\ NextKey <= MaxId
            /\ store' = (NextKey :> NewClient(t.data)) @@ store
            /\ nextId' = AfterKey
            /\ UNCHANGED dialect
            /\ IF PayloadRaises(CreatedPayloadAttrs)
               THEN tasks' = [tasks EXCEPT ![w].pc = "done", ![w].result = "AttributeError: name",
                                           ![w].wrote = TRUE, ![w].cid = Some(NextKey)]
               ELSE tasks' = [tasks EXCEPT ![w].pc = "publish", ![w].wrote = TRUE,
                                           ![w].cid = Some(NextKey),
                                           ![w].event = CustomerEvent("customer.created", NextKey)]

\* ------------------------------------------------- HTTP: PUT /customers/{id}
\* routes.update_customer: the id, a validated ClientUpdate and the expected version
Digits == <<"0", "1", "2", "3", "4", "5", "6", "7", "8", "9">>

\* the value of the decimal digits s after the value acc of the digits before them;
\* None where a character is no digit
RECURSIVE int_digits(_, _)
int_digits(s, acc) ==
    IF s = << >> THEN Some(acc)
    ELSE IF \E i \in DOMAIN Digits : Digits[i] = Head(s)
    THEN int_digits(Tail(s), 10 * acc + (CHOOSE i \in DOMAIN Digits : Digits[i] = Head(s)) - 1)
    ELSE None

\* int(if_match) for a header of unsigned text without blanks: the number, or None
\* where Python raises ValueError
int(s) == IF s = << >> THEN None ELSE int_digits(s, 0)

\* (mutant) a schema that keeps the keys it does not declare (extra="allow")
ClientUpdateFieldsAllowingExtra ==
    {"email", "first_name", "country_code", "orders_count", "created_at"}

\* the fields ClientUpdate declares, of those the model carries
ClientUpdateFields == {"email", "first_name", "country_code"}

\* ClientUpdate validating a body: pydantic ignores the keys the schema lacks
ClientUpdate(body) == [ k \in DOMAIN body \cap ClientUpdateFields |-> body[k] ]

\* routes.update_customer: past require_write, the If-Match header is parsed
\* first, and text that is no integer ends the request with HTTPException(400)
\* before svc.update is called, so the body never reaches the service
update_customer(w) ==
    /\ CanAccept(w)
    /\ \E caller \in Callers, id \in TargetIds :
        /\ caller.creds = "user"
        /\ IF require_write(caller) # "ok"
           THEN TurnedAway(w, "update", caller, require_write(caller))
           ELSE \E h \in IfMatchHeaders :
               LET t == [IdleTask EXCEPT !.op = "update", !.cid = Some(id),
                                         !.caller = caller, !.if_match = h] IN
               IF h # None /\ int(Val(h)) = None
               THEN Accept(w, [t EXCEPT !.pc = "done", !.result = "ValueError"])
               ELSE \E body \in UpdateBodies :
                   /\ h = {<<"2">>} => body.email = None
                   /\ Accept(w, [t EXCEPT !.pc = "update_get",
                                          !.data = ClientUpdate(body),
                                          !.expected = IF h = None THEN None
                                                       ELSE int(Val(h))])

\* (mutant) routes that let ConcurrencyConflictError through uncaught
status_code_unmapped(op, result) ==
    CASE result = "ok" -> IF op = "create" THEN 201 ELSE 200
      [] result = "Unauthorized" -> 401
      [] result = "Forbidden" -> 403
      [] result = "RequestValidationError" -> 422
      [] result = "ValueError" /\ op = "update" -> 400
      [] result = "NotFound" /\ op \in {"update", "delete", "read"} -> 404
      [] result = "EmailAlreadyExists" /\ op \in {"create", "update"} -> 409
      [] OTHER -> 500

\* the status the route of `op` answers with when the request ends in `result`: the
\* except clauses of create_customer, update_customer and delete_customer; any
\* other exception is the server's (500)
status_code(op, result) ==
    CASE result = "ok" -> IF op = "create" THEN 201 ELSE 200
      [] result = "Unauthorized" -> 401
      [] result = "Forbidden" -> 403
      [] result = "RequestValidationError" -> 422
      [] result = "ValueError" /\ op = "update" -> 400
      [] result = "NotFound" /\ op \in {"update", "delete", "read"} -> 404
      [] result = "EmailAlreadyExists" /\ op \in {"create", "update"} -> 409
      [] result = "ConcurrencyConflict" /\ op = "update" -> 409
      [] OTHER -> 500

\* another update of the same customer that carries the same expected version has
\* read the row at that version and has not written yet
Rivals(w, id, v) ==
    { u \in Workers \ {w} :
        /\ tasks[u].op = "update" /\ tasks[u].pc \in {"update_query", "update_commit"}
        /\ tasks[u].cid = Some(id) /\ tasks[u].expected = Some(v)
        /\ tasks[u].snap.version = v }

\* (mutant) the version check with its comparison inverted
VersionConflictInverted(expected, current) == expected # None /\ current = Val(expected)

\* expected_version is not None and current.version != expected_version
VersionConflict(expected, current) == expected # None /\ current # Val(expected)

\* CustomerService.update, first part: repo.get_client and the version check
update_get_client(w) ==
    LET t == tasks[w]
        id == Val(t.cid) IN
    /\ t.pc = "update_get"
    /\ UNCHANGED <<store, nextId, dialect, published, started>>
    /\ IF id \notin DOMAIN store
       THEN Finish(w, "NotFound")
       ELSE IF VersionConflict(t.expected, store[id].version)
       THEN tasks' = [tasks EXCEPT ![w].pc = "done", ![w].result = "ConcurrencyConflict",
                                   ![w].found = TRUE, ![w].snap = store[id]]
       ELSE LET rv == IF t.expected = None THEN {} ELSE Rivals(w, id, store[id].version) IN
            tasks' = [u \in Workers |->
                        IF u = w THEN [t EXCEPT !.pc = "update_query", !.found = TRUE,
                                                !.snap = store[id], !.rival = rv # {}]
                        ELSE IF u \in rv THEN [tasks[u] EXCEPT !.rival = TRUE]
                        ELSE tasks[u]]

\* repo.update_client, the SELECT: the session already holds the instance, so the
\* loaded attributes stay as first read; no row at all makes update_client return
\* None, and the service then reads customer.id of None
update_client_query(w) ==
    LET t == tasks[w] IN
    /\ t.pc = "update_query"
    /\ UNCHANGED <<store, nextId, dialect, published, started>>
    /\ IF Val(t.cid) \notin DOMAIN store
       THEN Finish(w, "AttributeError: id")
       ELSE tasks' = [tasks EXCEPT ![w].pc = "update_commit"]

\* (mutant) a full replacement: a field the payload leaves out is emptied
ApplyUpdatesReplacing(row, data) ==
    [row EXCEPT !.email      = IF data.email = None THEN "" ELSE Val(data.email),
                !.first_name = IF data.first_name = None THEN "" ELSE Val(data.first_name),
                !.country_code = data.country_code]

\* updates.model_dump(exclude_unset=True) applied with setattr, key by key
ApplyUpdates(row, data) ==
    LET set == [row EXCEPT
                  !.email      = IF data.email = None THEN @ ELSE Val(data.email),
                  !.first_name = IF data.first_name = None THEN @ ELSE Val(data.first_name),
                  !.country_code = IF data.country_code = None THEN @ ELSE data.country_code]
    IN  [ k \in DOMAIN row |->
            IF k \in DOMAIN data \ {"email", "first_name", "country_code"}
            THEN data[k] ELSE set[k] ]

\* repo.update_client, setattr + commit + refresh, then the rest of
\* CustomerService.update: the error mapping and the customer.updated event
update_client_commit(w) ==
    LET t   == tasks[w]
        id  == Val(t.cid)
        new == ApplyUpdates(t.snap, t.data)
        out == FlushOutcome(id, t.snap, new) IN
    /\ t.pc = "update_commit"
    /\ UNCHANGED <<nextId, dialect, published, started>>
    /\ CASE out = "clean" ->
              /\ UNCHANGED store
              /\ IF id \notin DOMAIN store
                 THEN Finish(w, "InvalidRequestError")   \* db.refresh finds no row
                 ELSE IF PayloadRaises(UpdatedPayloadAttrs)
                 THEN Finish(w, "AttributeError: name")
                 ELSE ThenPublish(w, CustomerEvent("customer.updated", id), FALSE)
         [] out = "stale" ->
              /\ UNCHANGED store
              /\ Finish(w, "ConcurrencyConflict")        \* StaleDataError
         [] out = "integrity" ->
              /\ UNCHANGED store
              /\ Finish(w, "EmailAlreadyExists")         \* IntegrityError
         [] out = "written" ->
              /\ t.snap.version < MaxVersion
              /\ store' = [store EXCEPT ![id] = Flushed(store[id], t.snap, new)]
              /\ IF PayloadRaises(UpdatedPayloadAttrs)
                 THEN FinishWrote(w, "AttributeError: name")
                 ELSE ThenPublish(w, CustomerEvent("customer.updated", id), TRUE)

\* ---------------------------------------------- HTTP: DELETE /customers/{id}
\* routes.delete_customer, past require_write
delete_customer(w) ==
    /\ CanAccept(w)
    /\ \E caller \in Callers, id \in TargetIds :
        /\ caller.creds = "user"
        /\ IF require_write(caller) # "ok"
           THEN TurnedAway(w, "delete", caller, require_write(caller))
           ELSE Accept(w, [IdleTask EXCEPT !.pc = "delete_query", !.op = "delete",
                                           !.cid = Some(id), !.caller = caller])

\* ------------------------------------------------- HTTP: GET /customers/{id}
\* routes.read_customer, past require_read: svc.get, one SELECT; NotFoundError is 404
read_customer(w) ==
    /\ CanAccept(w)
    /\ \E caller \in Callers, id \in TargetIds :
        IF require_read(caller) # "ok"
        THEN TurnedAway(w, "read", caller, require_read(caller))
        ELSE Accept(w, [IdleTask EXCEPT !.pc = "done", !.op = "read", !.cid = Some(id),
                                        !.caller = caller,
                                        !.found = id \in DOMAIN store,
                                        !.result = IF id \in DOMAIN store THEN "ok"
                                                   ELSE "NotFound"])

\* repo.delete_client, the SELECT; None makes CustomerService.delete raise NotFound
delete_client_query(w) ==
    LET t == tasks[w] IN
    /\ t.pc = "delete_query"
    /\ UNCHANGED <<store, nextId, dialect, published, started>>
    /\ IF Val(t.cid) \notin DOMAIN store
       THEN Finish(w, "NotFound")
       ELSE tasks' = [tasks EXCEPT ![w].pc = "delete_commit", ![w].found = TRUE,
                                   ![w].snap = store[Val(t.cid)]]

\* repo.delete_client, db.delete + commit: DELETE ... WHERE id = ? AND version = ?
delete_client_commit(w) ==
    LET t  == tasks[w]
        id == Val(t.cid) IN
    /\ t.pc = "delete_commit"
    /\ UNCHANGED <<nextId, dialect, published, started>>
    /\ IF id \notin DOMAIN store \/ store[id].version # t.snap.version
       THEN /\ Finish(w, "StaleDataError")
            /\ UNCHANGED store
       ELSE /\ store' = Without(store, id)
            /\ ThenPublish(w, CustomerEvent("customer.deleted", id), TRUE)

\* --------------------------------------------------- inbound order events
\* handlers._parse_iso: None or "" gives None; fromisoformat on the text with a
\* trailing Z read as +00:00; any parse error gives None
\* a datetime is its wall-clock text, followed by "+00:00" when it is timezone-aware
Aware(d) == d \o "+00:00"
_parse_iso(dt) ==
    IF dt = None \/ dt = Some("") THEN None
    ELSE IF \E d \in Dates : d \o "T00:00:00Z" = Val(dt)
         THEN Some(Aware(CHOOSE d \in Dates : d \o "T00:00:00Z" = Val(dt)))
    ELSE IF \E d \in Dates : d \o "T00:00:00" = Val(dt)
         THEN Some(CHOOSE d \in Dates : d \o "T00:00:00" = Val(dt))
         ELSE None

\* Python truth value of payload.get(key): a missing key, None and 0 are falsy
Falsy(o) == o = None \/ o = Some(0)

OrderKeys == {"order.created", "order.confirmed", "order.cancelled", "order.deleted"}

\* the routing keys lifespan.consumer_handler dispatches to a handler
HandledKeys == OrderKeys \cup {"order.rejected", "customer.validate_request"}

\* the routing keys the service publishes under
OutboundKeys ==
    {"order.rejected", "order.customer_validated",
     "customer.created", "customer.updated", "customer.deleted"}

\* the unit of work t was a delivery whose handler raised
FailedMessage(t) ==
    /\ t.op \in HandledKeys \cup OutboundKeys
    /\ t.pc = "done" /\ t.result # "ok"

\* (mutant) a loop that lets the handler's exception through: message.process()
\* rejects the message and the exception ends the iteration
message_process_raising(t) ==
    IF t.pc # "done" THEN "" ELSE IF t.result = "ok" THEN "ack" ELSE "reject"

\* start_consumer, `async with message.process()`: how the delivery behind the unit
\* of work t is settled.  The handler's exception is caught and logged inside the
\* block, which therefore ends normally and acknowledges the message
message_process(t) ==
    IF t.pc # "done" THEN "" ELSE "ack"

\* start_consumer, `async for message in it`: the loop goes on unless an exception
\* leaves its body
ConsumerRunning ==
    \A w \in Workers :
        tasks[w].op \in HandledKeys \cup OutboundKeys => message_process(tasks[w]) # "reject"

\* the routing keys under which bodies that are JSON but no object are delivered
NoObjectKeys == {"order.confirmed"}

\* start_consumer with lifespan.consumer_handler for a body that json.loads turns
\* into a list or a number: every handler starts with payload.get(...), which such
\* a value does not have; the AttributeError leaves the handler before any statement
\* on the session
consumer_handler_no_object(w) ==
    /\ CanAccept(w)
    /\ ConsumerRunning
    /\ \E rk \in NoObjectKeys :
        Accept(w, [IdleTask EXCEPT !.pc = "done", !.op = rk,
                                   !.result = "AttributeError: get",
                                   !.after_failure = FailedMessage(tasks[w])])

\* lifespan.consumer_handler: one delivery of the queue, dispatched on its routing key.
\* start_consumer.on_message hands it json.loads(body), or {"raw": body} when the
\* body does not parse: a payload none of whose keys a handler reads
consumer_handler(w) ==
    /\ CanAccept(w)
    /\ ConsumerRunning
    /\ \E rk \in HandledKeys, c \in Opt(TargetIds), o \in Opt(OrderIds), at \in CreatedAts,
          raw \in BOOLEAN :
        /\ raw => (c = None /\ o = None)
        /\ (~raw /\ rk # "order.confirmed") => o # None
        /\ (~raw /\ rk = "order.rejected") => c # None
        /\ (~raw /\ o = None) => c # None
        /\ (rk \notin {"order.created", "order.confirmed"} \/ o = None \/ c = None) => at = None
        /\ Accept(w, [IdleTask EXCEPT !.pc = "handle", !.op = rk, !.cid = c, !.order_id = o,
                                      !.order_date = _parse_iso(at), !.raw = raw,
                                      !.after_failure = FailedMessage(tasks[w])])

\* (mutant) a rejection that does not name its order
RejectedEventAnonymous(order_id, reason) ==
    [NoEvent EXCEPT !.rk = "order.rejected", !.reason = reason]

\* publish_message("order.rejected", {"order_id": order_id, "reason": reason})
RejectedEvent(order_id, reason) ==
    [NoEvent EXCEPT !.rk = "order.rejected", !.order_id = order_id, !.reason = reason]

\* (mutant) a validation published under the rejection's routing key
ValidatedEventMisrouted(order_id, customer_id) ==
    [NoEvent EXCEPT !.rk = "order.rejected", !.order_id = order_id,
                    !.customer_id = customer_id]

\* publish_message("order.customer_validated", {"order_id": ..., "customer_id": ...})
ValidatedEvent(order_id, customer_id) ==
    [NoEvent EXCEPT !.rk = "order.customer_validated", !.order_id = order_id,
                    !.customer_id = customer_id]

\* (mutant) the validation goes out as soon as the customer is found, before the commit
LookupPublishFirst(w) ==
    tasks' = [tasks EXCEPT ![w].pc = "publish", ![w].found = TRUE,
                           ![w].snap = store[Val(tasks[w].cid)],
                           ![w].event = ValidatedEvent(tasks[w].order_id, tasks[w].cid)]

\* svc.get(customer_id) inside a handler's try block: the row, or NotFoundError
Lookup(w) ==
    tasks' = [tasks EXCEPT ![w].pc = "commit", ![w].found = TRUE,
                           ![w].snap = store[Val(tasks[w].cid)]]

\* (mutant) a failed lookup that is only logged
NotFoundLogged(w) ==
    tasks' = [tasks EXCEPT ![w].pc = "done", ![w].result = "ok"]

\* except NotFoundError: db.rollback(), a warning, and the handler returns
NotFoundRolledBack(w) ==
    tasks' = [tasks EXCEPT ![w].pc = "done", ![w].result = "ok",
                           ![w].rollbacks = tasks[w].rollbacks + 1]

\* handle_order_created up to svc.get: reject a missing or unknown customer
handle_order_created(w) ==
    LET t == tasks[w] IN
    /\ t.pc = "handle" /\ t.op = "order.created"
    /\ UNCHANGED <<store, nextId, dialect, published, started>>
    /\ IF Falsy(t.cid)
       THEN ThenPublish(w, RejectedEvent(t.order_id, "Missing customer_id"), FALSE)
       ELSE IF Val(t.cid) \notin DOMAIN store
       THEN \* NotFoundError: db.rollback()
            tasks' = [tasks EXCEPT
                        ![w].pc = "publish", ![w].rollbacks = t.rollbacks + 1,
                        ![w].event = RejectedEvent(t.order_id,
                            "Customer " \o ToString(Val(t.cid)) \o " not found")]
       ELSE Lookup(w)

\* what db.commit() of a handler does with the instance changed to `new`
HandlerFlush(w, new) == FlushOutcome(Val(tasks[w].cid), tasks[w].snap, new)

\* db.commit() of a handler for the instance changed to `new`; StaleDataError is
\* not caught by the handler and reaches the consumer loop
HandlerCommit(w, new) ==
    LET t   == tasks[w]
        id  == Val(t.cid)
        out == HandlerFlush(w, new) IN
    /\ UNCHANGED <<nextId, dialect, published, started>>
    /\ CASE out = "clean"   -> UNCHANGED store
         [] out = "stale"   ->
              /\ UNCHANGED store
              /\ tasks' = [tasks EXCEPT ![w].pc = "done", ![w].result = "StaleDataError",
                                        ![w].commits = t.commits + 1]
         [] out = "written" ->
              /\ t.snap.version < MaxVersion
              /\ new.orders_count <= MaxCount
              /\ store' = [store EXCEPT ![id] = Flushed(store[id], t.snap, new)]

\* handle_order_created after svc.get: set last_order_date, commit, validate
handle_order_created_commit(w) ==
    LET t   == tasks[w]
        new == IF t.order_date # None THEN [t.snap EXCEPT !.last_order_date = t.order_date]
               ELSE t.snap
        out == HandlerFlush(w, new)
    IN  /\ t.pc = "commit" /\ t.op = "order.created"
        /\ HandlerCommit(w, new)
        /\ out # "stale" =>
              tasks' = [tasks EXCEPT ![w].pc = "publish", ![w].commits = t.commits + 1,
                                     ![w].event = ValidatedEvent(t.order_id, t.cid),
                                     ![w].wrote = (out = "written") \/ t.wrote]

\* a handler returns after its db.commit()
Return(w, didWrite) ==
    tasks' = [tasks EXCEPT ![w].pc = "done", ![w].result = "ok",
                           ![w].commits = tasks[w].commits + 1,
                           ![w].wrote = didWrite \/ tasks[w].wrote]

\* (mutant) a confirmation that rejects the order of a customer it does not find
handle_order_confirmed_rejecting(w) ==
    LET t == tasks[w] IN
    /\ t.pc = "handle" /\ t.op = "order.confirmed"
    /\ UNCHANGED <<store, nextId, dialect, published, started>>
    /\ IF Falsy(t.order_id) \/ Falsy(t.cid)
       THEN Finish(w, "ok")
       ELSE IF Val(t.cid) \notin DOMAIN store
       THEN ThenPublish(w, RejectedEvent(t.order_id, "Customer not found"), FALSE)
       ELSE Lookup(w)

\* (mutant) a confirmation that does not ask for an order_id
handle_order_confirmed_any_order(w) ==
    LET t == tasks[w] IN
    /\ t.pc = "handle" /\ t.op = "order.confirmed"
    /\ UNCHANGED <<store, nextId, dialect, published, started>>
    /\ IF Falsy(t.cid)
       THEN Finish(w, "ok")
       ELSE IF Val(t.cid) \notin DOMAIN store
       THEN NotFoundRolledBack(w)
       ELSE Lookup(w)

\* handle_order_confirmed up to svc.get: a payload without order_id or without
\* customer_id, or an unknown customer, is logged and dropped
handle_order_confirmed(w) ==
    LET t == tasks[w] IN
    /\ t.pc = "handle" /\ t.op = "order.confirmed"
    /\ UNCHANGED <<store, nextId, dialect, published, started>>
    /\ IF Falsy(t.order_id) \/ Falsy(t.cid)
       THEN Finish(w, "ok")
       ELSE IF Val(t.cid) \notin DOMAIN store
       THEN NotFoundRolledBack(w)
       ELSE Lookup(w)

\* (mutant) a confirmation that sets the date and leaves the count alone
ConfirmedUncounted(row, order_date, utcnow) ==
    [row EXCEPT !.last_order_date = IF order_date # None THEN order_date ELSE Some(utcnow)]

\* (mutant) a confirmation that takes a customer already counted for a duplicate
ConfirmedOnce(row, order_date, utcnow) ==
    [row EXCEPT !.orders_count = IF @ > 0 THEN @ ELSE @ + 1,
                !.last_order_date = IF order_date # None THEN order_date ELSE Some(utcnow)]

\* customer.orders_count = (customer.orders_count or 0) + 1
\* customer.last_order_date = order_date or datetime.utcnow()
Confirmed(row, order_date, utcnow) ==
    [row EXCEPT !.orders_count = @ + 1,
                !.last_order_date = IF order_date # None THEN order_date ELSE Some(utcnow)]

\* handle_order_confirmed after svc.get: count the order, date it, commit
handle_order_confirmed_commit(w) ==
    LET t == tasks[w] IN
    /\ t.pc = "commit" /\ t.op = "order.confirmed"
    /\ \E utcnow \in Dates :
         LET new == Confirmed(t.snap, t.order_date, utcnow)
             out == HandlerFlush(w, new)
         IN  /\ HandlerCommit(w, new)
             /\ out # "stale" => Return(w, out = "written")

\* handle_order_cancelled / handle_order_deleted up to svc.get
handle_order_cancelled(w) ==
    LET t == tasks[w] IN
    /\ t.pc = "handle" /\ t.op = "order.cancelled"
    /\ UNCHANGED <<store, nextId, dialect, published, started>>
    /\ IF Falsy(t.cid)
       THEN Finish(w, "ok")
       ELSE IF Val(t.cid) \notin DOMAIN store
       THEN NotFoundRolledBack(w)
       ELSE Lookup(w)

handle_order_deleted(w) ==
    LET t == tasks[w] IN
    /\ t.pc = "handle" /\ t.op = "order.deleted"
    /\ UNCHANGED <<store, nextId, dialect, published, started>>
    /\ IF Falsy(t.cid)
       THEN Finish(w, "ok")
       ELSE IF Val(t.cid) \notin DOMAIN store
       THEN NotFoundRolledBack(w)
       ELSE Lookup(w)

\* (mutant) a cancellation that clears the count instead of taking one off
DecrementReset(row) == [row EXCEPT !.orders_count = 0]

\* (mutant) the decrement without its guard
DecrementUnguarded(row) == [row EXCEPT !.orders_count = @ - 1]

\* if (customer.orders_count or 0) > 0: customer.orders_count -= 1
Decrement(row) ==
    IF row.orders_count > 0 THEN [row EXCEPT !.orders_count = @ - 1] ELSE row

\* handle_order_cancelled after svc.get: decrement above zero, commit
handle_order_cancelled_commit(w) ==
    LET t   == tasks[w]
        new == Decrement(t.snap)
        out == HandlerFlush(w, new)
    IN  /\ t.pc = "commit" /\ t.op = "order.cancelled"
        /\ HandlerCommit(w, new)
        /\ out # "stale" => Return(w, out = "written")

\* (mutant) an order.deleted that takes the customer away with the order
handle_order_deleted_commit_removing(w) ==
    LET t == tasks[w] IN
    /\ t.pc = "commit" /\ t.op = "order.deleted"
    /\ UNCHANGED <<nextId, dialect, published, started>>
    /\ store' = Without(store, Val(t.cid))
    /\ Return(w, TRUE)

\* handle_order_deleted after svc.get: decrement above zero, commit
handle_order_deleted_commit(w) ==
    LET t   == tasks[w]
        new == Decrement(t.snap)
        out == HandlerFlush(w, new)
    IN  /\ t.pc = "commit" /\ t.op = "order.deleted"
        /\ HandlerCommit(w, new)
        /\ out # "stale" => Return(w, out = "written")

\* (mutant) a rejection that is passed on
handle_order_rejected_republishing(w) ==
    /\ tasks[w].pc = "handle" /\ tasks[w].op = "order.rejected"
    /\ UNCHANGED <<store, nextId, dialect, published, started>>
    /\ ThenPublish(w, RejectedEvent(tasks[w].order_id, "Unknown"), FALSE)

\* handle_order_rejected: logs the order, its reason and its customer, nothing else
handle_order_rejected(w) ==
    /\ tasks[w].pc = "handle" /\ tasks[w].op = "order.rejected"
    /\ UNCHANGED <<store, nextId, dialect, published, started>>
    /\ Finish(w, "ok")

\* (mutant) a validation request answered with a validation whoever asks
ValidateRequestAnswer(t) == ValidatedEvent(t.order_id, t.cid)

\* handle_customer_validate_request: without a customer_id, or with one svc.get does
\* not find, order.rejected; else order.customer_validated.  No row is written
ValidateRequestOutcome(t) ==
    IF Falsy(t.cid) THEN RejectedEvent(t.order_id, "Missing customer_id")
    ELSE IF Val(t.cid) \notin DOMAIN store
    THEN RejectedEvent(t.order_id, "Customer " \o ToString(Val(t.cid)) \o " not found")
    ELSE ValidatedEvent(t.order_id, t.cid)

handle_customer_validate_request(w) ==
    LET t == tasks[w] IN
    /\ t.pc = "handle" /\ t.op = "customer.validate_request"
    /\ UNCHANGED <<store, nextId, dialect, published, started>>
    /\ tasks' = [tasks EXCEPT ![w].pc = "publish", ![w].event = ValidateRequestOutcome(t),
                              ![w].found = ~Falsy(t.cid) /\ Val(t.cid) \in DOMAIN store]

\* ------------------------------------------------------------------ broker
\* whether the Session of a unit of work `op` standing at `pc` has begun a transaction
\* it has not ended: the first SELECT begins one, commit() and rollback() end it, and
\* the db.refresh() that create_client and update_client run after their commit
\* begins the next
OpenAt(op, pc) ==
    \/ pc \in {"update_query", "update_commit", "delete_commit", "commit"}
    \/ pc = "publish" /\ op \in {"create", "update"}

\* what becomes of a message handed to publish_message: the exchange takes it; or
\* self.exchange is None (connect() never succeeded) and the method returns; or
\* exchange.publish raises and the method logs the exception.  In all three the
\* method returns None to its caller
PublishOutcomes == {"published", "no exchange", "publish raised"}

\* RabbitMQ.publish_message, awaited by the unit of work after its commit
publish_message(w) ==
    /\ tasks[w].pc = "publish"
    /\ Len(published) < MaxPublished
    /\ published' = Append(published, tasks[w].event)
    /\ \E outcome \in PublishOutcomes :
         tasks' = [tasks EXCEPT ![w].pc = "done", ![w].result = "ok",
                                ![w].pubs = tasks[w].pubs + 1,
                                ![w].broker = outcome]
    /\ UNCHANGED <<store, nextId, dialect, started>>

Step(w) ==
    \/ create_customer(w)
    \/ create(w)
    \/ update_customer(w)
    \/ update_get_client(w)
    \/ update_client_query(w)
    \/ update_client_commit(w)
    \/ delete_customer(w)
    \/ delete_client_query(w)
    \/ delete_client_commit(w)
    \/ read_customer(w)
    \/ consumer_handler(w)
    \/ handle_order_created(w)
    \/ handle_order_created_commit(w)
    \/ handle_order_confirmed(w)
    \/ handle_order_confirmed_commit(w)
    \/ handle_order_cancelled(w)
    \/ handle_order_cancelled_commit(w)
    \/ handle_order_deleted(w)
    \/ handle_order_deleted_commit(w)
    \/ handle_order_rejected(w)
    \/ handle_customer_validate_request(w)
    \/ publish_message(w)

\* several instances on one store: any worker takes its next step
Next == \E w \in Workers : Step(w)

Spec == Init /\ [][Next]_vars

\* ------------------------------------------------------------- sessions
\* get_db and lifespan.consumer_handler, `db = SessionLocal()`: the unit of work t
\* has a session of its own.  A request turned away by require_read / require_write
\* or by the validation of its body does not reach the route that uses the session
SessionOpened(t) ==
    /\ t.pc # "idle"
    /\ t.result \notin {"Unauthorized", "Forbidden", "RequestValidationError"}

\* get_db and lifespan.consumer_handler, `finally: db.close()`: the session is
\* closed when the route or the handler is left, by return or by exception
SessionClosed(t) == SessionOpened(t) /\ t.pc = "done"

\* ------------------------------------------------- the service's own events
\* q-customer is bound to the patterns order.# and customer.# of the exchange the
\* service publishes to: every event of its own that the exchange takes comes back
\* as a delivery.  The delivery takes the place of the unit of work that published
deliver_own(w) ==
    /\ tasks[w].pc = "done" /\ tasks[w].broker = "published"
    /\ ConsumerRunning
    /\ tasks' = [tasks EXCEPT ![w] =
                    [IdleTask EXCEPT !.pc = "handle", !.op = tasks[w].event.rk,
                                     !.cid = tasks[w].event.customer_id,
                                     !.order_id = tasks[w].event.order_id]]
    /\ UNCHANGED <<store, nextId, dialect, published, started>>

\* lifespan.consumer_handler, the else branch: a routing key without a handler is
\* logged ("event ignoré")
ignore_event(w) ==
    /\ tasks[w].pc = "handle" /\ tasks[w].op \notin HandledKeys
    /\ UNCHANGED <<store, nextId, dialect, published, started>>
    /\ Finish(w, "ok")

\* ---------------------------------------------------- startup and shutdown
\* main.lifespan, the context manager around the application's life: it runs as a
\* unit of work of its own, from the database check to the yield during which the
\* application serves, and on to the disconnect at shutdown
InitBoot ==
    /\ store \in InitStores
    /\ nextId = Len(store) + 1
    /\ dialect \in Dialects
    /\ tasks = [w \in Workers |->
                  IF w = 1 THEN [IdleTask EXCEPT !.pc = "db_check", !.op = "lifespan"]
                  ELSE IdleTask]
    /\ published = << >>
    /\ started = 0

\* a step of lifespan from `from` to `to`; an exception of the step is caught and
\* logged under `name`
LifespanStep(w, from, to, name, raised) ==
    /\ tasks[w].op = "lifespan" /\ tasks[w].pc = from
    /\ tasks' = [tasks EXCEPT ![w].pc = to,
                              ![w].failures = IF raised THEN @ \cup {name} ELSE @]
    /\ UNCHANGED <<store, nextId, dialect, published, started>>

\* lifespan: engine.connect() and SELECT 1, in try / except Exception: logged
lifespan_db_check(w) ==
    \E raised \in BOOLEAN : LifespanStep(w, "db_check", "init_db", "database", raised)

\* lifespan: init_db(), in try / except Exception: logged
lifespan_init_db(w) ==
    \E raised \in BOOLEAN : LifespanStep(w, "init_db", "connect", "schema", raised)

\* (mutant) a lifespan that creates the consumer task whether or not connect() came back
lifespan_connect_consumer_always(w) ==
    \E raised \in BOOLEAN :
        /\ tasks[w].op = "lifespan" /\ tasks[w].pc = "connect"
        /\ tasks' = [tasks EXCEPT ![w].pc = "yield",
                                  ![w].failures = IF raised THEN @ \cup {"rabbitmq"} ELSE @,
                                  ![w].exchange = ~raised, ![w].consumer = TRUE]
        /\ UNCHANGED <<store, nextId, dialect, published, started>>

\* lifespan: rabbitmq.connect(), which sets self.exchange as its last statement,
\* then asyncio.create_task(start_consumer(...)), all in one try / except
\* Exception: logged.  A failed connect leaves the exchange None and skips the
\* consumer
lifespan_connect(w) ==
    \E raised \in BOOLEAN :
        /\ tasks[w].op = "lifespan" /\ tasks[w].pc = "connect"
        /\ tasks' = [tasks EXCEPT ![w].pc = "yield",
                                  ![w].failures = IF raised THEN @ \cup {"rabbitmq"} ELSE @,
                                  ![w].exchange = ~raised, ![w].consumer = ~raised]
        /\ UNCHANGED <<store, nextId, dialect, published, started>>

\* lifespan after the yield: rabbitmq.disconnect() in try / except Exception: pass.
\* The server stops taking requests and lets those in flight end before it
lifespan_shutdown(w) ==
    /\ \A u \in Workers \ {w} : Free(u)
    /\ \E raised \in BOOLEAN :
        /\ LifespanStep(w, "yield", "stopped", "disconnect", raised)

\* the application is between startup and shutdown
Serving == \E l \in Workers : tasks[l].op = "lifespan" /\ tasks[l].pc = "yield"

\* rabbitmq.exchange is set
ExchangeSet == \E l \in Workers : tasks[l].op = "lifespan" /\ tasks[l].exchange

\* the task running start_consumer exists
ConsumerStarted == \E l \in Workers : tasks[l].op = "lifespan" /\ tasks[l].consumer

\* one instance from its start to its stop: requests are taken while it serves,
\* deliveries while the consumer runs, and publish_message returns at once
\* exactly when the exchange is None
StepBoot(w) ==
    \/ lifespan_db_check(w)
    \/ lifespan_init_db(w)
    \/ lifespan_connect(w)
    \/ lifespan_shutdown(w)
    \/ create_customer(w) /\ Serving
    \/ create(w)
    \/ update_customer(w) /\ Serving
    \/ update_get_client(w)
    \/ update_client_query(w)
    \/ update_client_commit(w)
    \/ delete_customer(w) /\ Serving
    \/ delete_client_query(w)
    \/ delete_client_commit(w)
    \/ read_customer(w) /\ Serving
    \/ consumer_handler(w) /\ Serving /\ ConsumerStarted
    \/ handle_order_created(w)
    \/ handle_order_created_commit(w)
    \/ handle_order_confirmed(w)
    \/ handle_order_confirmed_commit(w)
    \/ handle_order_cancelled(w)
    \/ handle_order_cancelled_commit(w)
    \/ handle_order_deleted(w)
    \/ handle_order_deleted_commit(w)
    \/ handle_order_rejected(w)
    \/ handle_customer_validate_request(w)
    \/ publish_message(w) /\ (tasks'[w].broker = "no exchange" <=> ~ExchangeSet)

NextBoot == \E w \in Workers : StepBoot(w)

\* lifespan up to its yield
Startup(w) == lifespan_db_check(w) \/ lifespan_init_db(w) \/ lifespan_connect(w)

\* the event loop runs the lifespan coroutine up to its yield
SpecBoot == InitBoot /\ [][NextBoot]_vars /\ \A w \in Workers : WF_vars(Startup(w))

\* between its first SELECT and its commit a unit of work awaits nothing
InDatabase(w) ==
    tasks[w].pc \in {"update_query", "update_commit", "delete_commit", "commit"}

\* one instance: a worker steps only while no other unit of work is between its
\* first SELECT and its commit
Alone(w) == \A u \in Workers \ {w} : ~InDatabase(u)

StepSingle(w) ==
    \/ create_customer(w) /\ Alone(w)
    \/ create(w) /\ Alone(w)
    \/ update_customer(w) /\ Alone(w)
    \/ update_get_client(w) /\ Alone(w)
    \/ update_client_query(w) /\ Alone(w)
    \/ update_client_commit(w) /\ Alone(w)
    \/ delete_customer(w) /\ Alone(w)
    \/ delete_client_query(w) /\ Alone(w)
    \/ delete_client_commit(w) /\ Alone(w)
    \/ read_customer(w) /\ Alone(w)
    \/ consumer_handler(w) /\ Alone(w)
    \/ handle_order_created(w) /\ Alone(w)
    \/ handle_order_created_commit(w) /\ Alone(w)
    \/ handle_order_confirmed(w) /\ Alone(w)
    \/ handle_order_confirmed_commit(w) /\ Alone(w)
    \/ handle_order_cancelled(w) /\ Alone(w)
    \/ handle_order_cancelled_commit(w) /\ Alone(w)
    \/ handle_order_deleted(w) /\ Alone(w)
    \/ handle_order_deleted_commit(w) /\ Alone(w)
    \/ handle_order_rejected(w) /\ Alone(w)
    \/ handle_customer_validate_request(w) /\ Alone(w)
    \/ publish_message(w) /\ Alone(w)

NextSingle == \E w \in Workers : StepSingle(w)

SpecSingle == Init /\ [][NextSingle]_vars

\* start_consumer, `async for message in it` with `await handler(payload, rk)`: an
\* instance takes its next delivery when the handler of the one before has returned
ConsumerIdle ==
    \A u \in Workers : tasks[u].op \in HandledKeys \cup OutboundKeys => Free(u)

\* the units of work that take a delivery or hand an event to the broker.  Of the
\* HTTP side that is the delete: create and update leave CustomerService before
\* their publish_message call and a read has none.
\* A request or a message reaches the instance from outside
Arrival(w) ==
    \/ delete_customer(w) /\ Alone(w)
    \/ consumer_handler(w) /\ Alone(w) /\ ConsumerIdle
    \/ consumer_handler_no_object(w) /\ Alone(w) /\ ConsumerIdle

\* a step of a unit of work already under way, or a delivery of the broker
Internal(w) ==
    \/ delete_client_query(w) /\ Alone(w)
    \/ delete_client_commit(w) /\ Alone(w)
    \/ deliver_own(w) /\ Alone(w) /\ ConsumerIdle
    \/ handle_order_created(w) /\ Alone(w)
    \/ handle_order_created_commit(w) /\ Alone(w)
    \/ handle_order_confirmed(w) /\ Alone(w)
    \/ handle_order_confirmed_commit(w) /\ Alone(w)
    \/ handle_order_cancelled(w) /\ Alone(w)
    \/ handle_order_cancelled_commit(w) /\ Alone(w)
    \/ handle_order_deleted(w) /\ Alone(w)
    \/ handle_order_deleted_commit(w) /\ Alone(w)
    \/ handle_order_rejected(w) /\ Alone(w)
    \/ handle_customer_validate_request(w) /\ Alone(w)
    \/ ignore_event(w) /\ Alone(w)
    \/ publish_message(w) /\ Alone(w)

StepLoop(w) == Arrival(w) \/ Internal(w)

NextLoop == \E w \in Workers : StepLoop(w)

\* one instance with its queue: the event loop runs every task that can run and
\* the broker delivers every message it routed; nothing obliges a caller to send a
\* request or a producer to send a message
SpecLoop == Init /\ [][NextLoop]_vars /\ WF_vars(\E w \in Workers : Internal(w))

\* =================================================================== claims
\* worker w takes a step of its unit of work
Stepped(w) == tasks'[w] # tasks[w]
Ended(w, op, result) ==
    tasks[w].pc = "done" /\ tasks[w].op = op /\ tasks[w].result = result

\* ----------------------------------------------------------------------- C1
UniqueEmails ==
    \A a, b \in DOMAIN store : store[a].email = store[b].email => a = b

\* the create step of worker w meets a stored customer with its email
DuplicateCreate(w) ==
    /\ tasks[w].pc = "create" /\ Stepped(w)
    /\ \E id \in DOMAIN store : store[id].email = Val(tasks[w].data.email)

\* C1: in every reachable state, under any interleaving of create, update, delete
\* and the order events, no two stored customers have the same email; and a create
\* whose email a stored customer has ends with EmailAlreadyExists, adds no row,
\* changes no row and publishes no event.
C1_EmailUniqueness ==
    /\ []UniqueEmails
    /\ [][\A w \in Workers : DuplicateCreate(w) =>
            /\ tasks'[w].pc = "done" /\ tasks'[w].result = "EmailAlreadyExists"
            /\ tasks'[w].pubs = 0
            /\ store' = store /\ published' = published]_vars

\* a create was refused for its email while that email is stored
C1_Witness ==
    \E w \in Workers :
        /\ Ended(w, "create", "EmailAlreadyExists")
        /\ \E id \in DOMAIN store : store[id].email = Val(tasks[w].data.email)

\* ----------------------------------------------------------------------- C2
\* worker w ends its update with ConcurrencyConflict in this step
ConflictNow(w) ==
    /\ tasks[w].op = "update" /\ tasks[w].pc # "done"
    /\ tasks'[w].pc = "done" /\ tasks'[w].result = "ConcurrencyConflict"

\* C2: with no concurrent writer (one instance), an update of an existing customer
\* at version v ends with ConcurrencyConflict exactly when an expected_version is
\* supplied and differs from v; then no field of the row, version included, changes
\* and nothing is published.  Without an expected_version the check is skipped.
C2_OptimisticLock ==
    [][\A w \in Workers :
         LET t == tasks[w] IN
         (t.op = "update" /\ t.pc # "done" /\ Stepped(w)) =>
            /\ (t.pc = "update_get" /\ Val(t.cid) \in DOMAIN store) =>
                 (ConflictNow(w) <=>
                    (t.expected # None /\ Val(t.expected) # store[Val(t.cid)].version))
            /\ t.pc # "update_get" => ~ConflictNow(w)
            /\ ConflictNow(w) =>
                 /\ store' = store /\ published' = published
                 /\ tasks'[w].pubs = 0 /\ ~tasks'[w].wrote]_vars

\* an update that carried an expected_version other than the stored version was
\* refused with ConcurrencyConflict
C2_Witness ==
    \E w \in Workers :
        /\ Ended(w, "update", "ConcurrencyConflict")
        /\ tasks[w].found /\ tasks[w].expected # None
        /\ Val(tasks[w].expected) # tasks[w].snap.version

\* ----------------------------------------------------------------------- C3
\* the unit of work of w is past its database work
Settled(w) == tasks[w].pc \in {"publish", "done"}

\* repo.update_client came back with the customer: the update raised none of
\* NotFound, ConcurrencyConflict, EmailAlreadyExists
Returned(w) ==
    /\ tasks[w].op = "update" /\ tasks[w].found
    /\ \/ tasks[w].pc = "publish"
       \/ tasks[w].pc = "done" /\ tasks[w].result \in {"ok", "AttributeError: name"}

\* the payload of update w changes a field value of the row it read
Changing(w) == ApplyUpdates(tasks[w].snap, tasks[w].data) # tasks[w].snap

\* the row an update leaves when its write commits on the row it read
Written(w) ==
    LET new == ApplyUpdates(tasks[w].snap, tasks[w].data)
    IN  [new EXCEPT !.version = tasks[w].snap.version + 1]

\* a and b are two settled updates of one customer that both carried the stored
\* version and both read the row before either wrote
RivalPair(a, b) ==
    /\ a # b /\ Settled(a) /\ Settled(b)
    /\ tasks[a].op = "update" /\ tasks[b].op = "update"
    /\ tasks[a].rival /\ tasks[b].rival
    /\ tasks[a].found /\ tasks[b].found
    /\ tasks[a].cid = tasks[b].cid
    /\ tasks[a].expected = Some(tasks[a].snap.version)
    /\ tasks[b].expected = tasks[a].expected
    /\ tasks[b].snap.version = tasks[a].snap.version

UpdateReturns(w) ==
    /\ tasks[w].op = "update" /\ tasks[w].pc = "update_commit"
    /\ \/ tasks'[w].pc = "publish"
       \/ tasks'[w].pc = "done" /\ tasks'[w].result \in {"ok", "AttributeError: name"}

C5_VersionMonotonic ==
    /\ [](\A id \in DOMAIN store : store[id].version >= 1)
    /\ [][\A id \in DOMAIN store \cap DOMAIN store' :
            store'[id].version >= store[id].version]_vars

\* a write has moved a stored customer to a later version
C5_Witness ==
    \E id \in DOMAIN store, w \in Workers :
        /\ tasks[w].cid = Some(id) /\ tasks[w].wrote /\ tasks[w].found
        /\ store[id].version > tasks[w].snap.version

\* ----------------------------------------------------------------------- C6
\* the commit step of an order.cancelled or order.deleted handler for a stored customer
DecrementStep(w) ==
    /\ tasks[w].op \in {"order.cancelled", "order.deleted"}
    /\ tasks[w].pc = "commit" /\ Stepped(w)
    /\ Val(tasks[w].cid) \in DOMAIN store

\* C6: orders_count of every stored customer is never negative, under any
\* interleaving of order.confirmed, order.cancelled and order.deleted; a cancelled or
\* deleted event handled for a customer whose count is 0 leaves it at 0.
C6_OrdersCountNonNegative ==
    /\ [](\A id \in DOMAIN store : store[id].orders_count >= 0)
    /\ [][\A w \in Workers :
            (DecrementStep(w) /\ store[Val(tasks[w].cid)].orders_count = 0) =>
                store'[Val(tasks[w].cid)].orders_count = 0]_vars

\* an order.cancelled and an order.deleted were both handled for a customer whose
\* count was 0, and it is still 0
C6_Witness ==
    \E a, b \in Workers :
        /\ Ended(a, "order.cancelled", "ok") /\ Ended(b, "order.deleted", "ok")
        /\ tasks[a].found /\ tasks[b].found /\ tasks[a].cid = tasks[b].cid
        /\ tasks[a].snap.orders_count = 0 /\ tasks[b].snap.orders_count = 0
        /\ store[Val(tasks[a].cid)].orders_count = 0

\* ----------------------------------------------------------------------- C7
\* worker w handles an order.created whose customer_id is absent or names no stored
\* customer: the step that looks the customer up
RejectStep(w) ==
    /\ tasks[w].op = "order.created" /\ tasks[w].pc = "handle" /\ Stepped(w)
    /\ tasks[w].cid = None \/ Val(tasks[w].cid) \notin DOMAIN store

\* the order.rejected event C7 expects for the delivery held by w
ExpectedRejection(w) ==
    [rk          |-> "order.rejected",
     customer_id |-> None,
     order_id    |-> tasks[w].order_id,
     reason      |-> IF tasks[w].cid = None THEN "Missing customer_id"
                     ELSE IF tasks[w].cid = Some(1) THEN "Customer 1 not found"
                     ELSE "Customer 2 not found"]

\* an order.created delivery on its rejection path
Rejecting(w) ==
    tasks[w].op = "order.created" /\ ~tasks[w].found /\ tasks[w].pc \in {"publish", "done"}

\* C7: handling an order.created whose customer_id is absent or names no stored
\* customer publishes exactly one order.rejected for that order_id, with reason
\* "Missing customer_id" or "Customer {id} not found", publishes no
\* order.customer_validated, and creates, alters or deletes no customer row.
C7_RejectOnMissingCustomer ==
    /\ [][\A w \in Workers : RejectStep(w) =>
            /\ tasks'[w].pc = "publish" /\ tasks'[w].event = ExpectedRejection(w)
            /\ store' = store /\ published' = published]_vars
    /\ [][\A w \in Workers : (Rejecting(w) /\ tasks[w].pc = "publish" /\ Stepped(w)) =>
            /\ published' = Append(published, ExpectedRejection(w))
            /\ tasks'[w].pc = "done" /\ tasks'[w].pubs = 1
            /\ store' = store]_vars
    /\ [](\A w \in Workers : Rejecting(w) =>
            /\ ~tasks[w].wrote
            /\ tasks[w].event = ExpectedRejection(w)
            /\ tasks[w].pubs = IF tasks[w].pc = "done" THEN 1 ELSE 0)

\* one order.created without customer_id and one for an unknown customer have both
\* been rejected
C7_Witness ==
    \E a, b \in Workers :
        /\ Rejecting(a) /\ Rejecting(b) /\ tasks[a].pc = "done" /\ tasks[b].pc = "done"
        /\ tasks[a].cid = None /\ tasks[b].cid # None
        /\ \E i, j \in DOMAIN published :
             /\ published[i].reason = "Missing customer_id"
             /\ published[j].reason = "Customer 1 not found"

\* ----------------------------------------------------------------------- C8
\* the order.customer_validated event C8 expects for the delivery held by w
ExpectedValidation(w) ==
    [rk          |-> "order.customer_validated",
     customer_id |-> tasks[w].cid,
     order_id    |-> tasks[w].order_id,
     reason      |-> ""]

\* C8: every handled order.created delivery produces exactly one outbound event:
\* order.customer_validated {order_id, customer_id} if the customer exists at lookup
\* time, order.rejected otherwise, never both and never neither; on the validated
\* path orders_count is unchanged and last_order_date changes only if the event
\* carries a parseable date.  (One instance: no writer between lookup and commit.)
C8_ValidateXorReject ==
    /\ [][\A w \in Workers :
            (tasks[w].op = "order.created" /\ tasks[w].pc = "handle" /\ Stepped(w)) =>
                (tasks'[w].found <=>
                    (tasks[w].cid # None /\ Val(tasks[w].cid) \in DOMAIN store))]_vars
    /\ [][\A w \in Workers :
            (tasks[w].op = "order.created" /\ tasks[w].pc = "commit" /\ Stepped(w)) =>
                LET id == Val(tasks[w].cid) IN
                /\ tasks'[w].pc = "publish" /\ tasks'[w].event = ExpectedValidation(w)
                /\ DOMAIN store' = DOMAIN store
                /\ \A other \in DOMAIN store \ {id} : store'[other] = store[other]
                /\ store'[id].orders_count = store[id].orders_count
                /\ store'[id].last_order_date # store[id].last_order_date =>
                      tasks[w].order_date # None]_vars
    /\ [][\A w \in Workers :
            (tasks[w].op = "order.created" /\ tasks[w].pc = "publish" /\ Stepped(w)) =>
                /\ published' = Append(published, tasks[w].event)
                /\ tasks'[w].pc = "done" /\ store' = store]_vars
    /\ [](\A w \in Workers : (tasks[w].op = "order.created" /\ Settled(w)) =>
            /\ tasks[w].event = IF tasks[w].found THEN ExpectedValidation(w)
                                ELSE ExpectedRejection(w)
            /\ tasks[w].pubs = IF tasks[w].pc = "done" THEN 1 ELSE 0)

\* an order.created with a date was validated for a stored customer, whose
\* last_order_date it set
C8_Witness ==
    \E w \in Workers :
        /\ Ended(w, "order.created", "ok") /\ tasks[w].found /\ tasks[w].wrote
        /\ tasks[w].order_date # None
        /\ \E i \in DOMAIN published : published[i] = ExpectedValidation(w)
        /\ Val(tasks[w].cid) \in DOMAIN store
        /\ store[Val(tasks[w].cid)].orders_count = tasks[w].snap.orders_count
        /\ store[Val(tasks[w].cid)].last_order_date # tasks[w].snap.last_order_date

\* ----------------------------------------------------------------------- C9
\* the customer_id of the delivery held by w names a stored customer
Resolves(w) == tasks[w].cid # None /\ Val(tasks[w].cid) \in DOMAIN store

\* the step in which the handling of the order.confirmed delivery held by w ends
ConfirmationEnds(w) ==
    /\ tasks[w].op = "order.confirmed" /\ tasks[w].pc \in {"handle", "commit"}
    /\ tasks'[w].pc = "done"

\* what C9 expects of the step that counts the confirmation held by w
Counted(w) ==
    LET id == Val(tasks[w].cid)
        d  == tasks[w].order_date IN
    /\ DOMAIN store' = DOMAIN store
    /\ \A other \in DOMAIN store \ {id} : store'[other] = store[other]
    /\ store'[id].orders_count = store[id].orders_count + 1
    /\ \E day \in Dates :
         /\ store'[id].last_order_date = Some(day)
         /\ d # None => Val(d) \in {day, day \o "+00:00"}
    /\ store'[id].email = store[id].email /\ store'[id].first_name = store[id].first_name
    /\ published' = published
    /\ tasks'[w].result = "ok" /\ tasks'[w].pubs = 0 /\ tasks'[w].wrote

SameMessage(u, w) ==
    /\ tasks[u].op = tasks[w].op /\ tasks[u].cid = tasks[w].cid
    /\ tasks[u].order_id = tasks[w].order_id /\ tasks[u].order_date = tasks[w].order_date

\* the message held by w has been delivered, and handled to its end, before
Redelivered(w) ==
    \E u \in Workers \ {w} : tasks[u].pc = "done" /\ SameMessage(u, w)

RightAfter(a, b) ==
    /\ a # b /\ tasks[a].cid = tasks[b].cid
    /\ tasks[a].pc = "done" /\ tasks[a].result = "ok" /\ tasks[a].found /\ tasks[a].wrote
    /\ tasks[b].pc = "done" /\ tasks[b].result = "ok" /\ tasks[b].found /\ tasks[b].wrote
    /\ tasks[b].snap.version = tasks[a].snap.version + 1
    /\ Val(tasks[a].cid) \in DOMAIN store
    /\ store[Val(tasks[a].cid)].version = tasks[b].snap.version + 1

OnlyDeletes == \A w \in Workers : tasks[w].op \in {"", "delete"}

\* C12 as stated: for any sequence or interleaving of delete calls on the same id,
\* at most one returns the deleted snapshot and publishes customer.deleted; every
\* other call, and every delete of an id that never existed, fails with NotFound and
\* publishes nothing.
C12_DeleteSucceedsOnce ==
    OnlyDeletes =>
        /\ \A a, b \in Workers :
             (a # b /\ tasks[a].cid = tasks[b].cid /\ tasks[a].wrote) => ~tasks[b].wrote
        /\ \A w \in Workers : (tasks[w].op = "delete" /\ tasks[w].pc = "done") =>
             \/ tasks[w].result = "ok" /\ tasks[w].wrote /\ tasks[w].pubs = 1
             \/ tasks[w].result = "NotFound" /\ ~tasks[w].wrote /\ tasks[w].pubs = 0

\* ---------------------------------------------------------------------- C13
\* delete(id) has committed its DELETE, and its unit of work is still on record
DeleteCommitted(id) ==
    \E w \in Workers :
        /\ tasks[w].op = "delete" /\ tasks[w].wrote
        /\ tasks[w].cid = Some(id)

\* C13 as stated: once delete(id) has succeeded the id names no row in any later
\* state, so that get(id), update(id, ...) and every order event naming it find no
\* customer (each resolves the id by get_client): the row never reappears and the id
\* is not given to another customer.
C13_HardDelete ==
    \A id \in 1..MaxId : DeleteCommitted(id) => id \notin DOMAIN store

\* ---------------------------------------------------------------------- C14
\* every message handed to the publisher so far reached the exchange
Available == \A w \in Workers : tasks[w].broker \in {"", "published"}

\* the event a mutation of the given kind announces
Announces(op) ==
    CASE op = "create" -> "customer.created"
      [] op = "update" -> "customer.updated"
      [] op = "delete" -> "customer.deleted"

\* the refusals of the service
Refusals == {"NotFound", "EmailAlreadyExists", "ConcurrencyConflict"}

\* C14 as stated: with an available publisher, each create, update and delete that
\* took effect has published exactly one event, customer.created, customer.updated or
\* customer.deleted respectively, naming the customer; an operation that failed with
\* NotFound, EmailAlreadyExists or ConcurrencyConflict has published none.
C14_OneEventPerMutation ==
    Available =>
        \A w \in Workers :
            (tasks[w].pc = "done" /\ tasks[w].op \in {"create", "update", "delete"}) =>
                /\ tasks[w].wrote =>
                      /\ tasks[w].pubs = 1
                      /\ tasks[w].event = CustomerEvent(Announces(tasks[w].op),
                                                        Val(tasks[w].cid))
                /\ tasks[w].result \in Refusals => tasks[w].pubs = 0

\* ---------------------------------------------------------------------- C15
\* the events that announce a store write
CommitEvents ==
    {"customer.created", "customer.updated", "customer.deleted", "order.customer_validated"}

\* worker w hands such an event to the publisher in this step
Publishing(w) ==
    /\ tasks[w].pc = "publish" /\ Stepped(w)
    /\ tasks[w].event.rk \in CommitEvents

\* the unit of work of w had no column to change
NothingToWrite(w) ==
    \/ tasks[w].op = "customer.validate_request"
    \/ /\ tasks[w].op = "order.created"
       /\ \/ tasks[w].order_date = None
          \/ tasks[w].order_date = tasks[w].snap.last_order_date

C16_PublishFailureSwallowed ==
    \A w \in Workers :
        ( /\ tasks[w].pc = "done" /\ tasks[w].op \in {"create", "update", "delete"}
          /\ tasks[w].wrote
          /\ tasks[w].broker # "published" ) => tasks[w].result = "ok"

\* ---------------------------------------------------------------------- C17
\* the If-Match header of w's request is text that int() refuses
BadIfMatch(w) ==
    /\ tasks[w].op = "update" /\ tasks[w].if_match # None
    /\ int(Val(tasks[w].if_match)) = None

\* C17: a request that ends in NotFound is answered 404, one that ends in
\* EmailAlreadyExists or ConcurrencyConflict 409; an update whose If-Match header is
\* no integer is answered 400 at once: it reads no row, writes nothing and publishes
\* nothing, and the step that takes it leaves store and publisher alone.
C17_StatusMapping ==
    /\ [](\A w \in Workers :
            (tasks[w].pc = "done" /\ tasks[w].op \in {"create", "update", "delete"}) =>
                /\ tasks[w].result = "NotFound" =>
                      status_code(tasks[w].op, tasks[w].result) = 404
                /\ tasks[w].result \in {"EmailAlreadyExists", "ConcurrencyConflict"} =>
                      status_code(tasks[w].op, tasks[w].result) = 409)
    /\ [](\A w \in Workers : BadIfMatch(w) =>
            /\ tasks[w].pc = "done"
            /\ status_code(tasks[w].op, tasks[w].result) = 400
            /\ ~tasks[w].found /\ ~tasks[w].wrote /\ tasks[w].pubs = 0)
    /\ [][\A w \in Workers : (BadIfMatch(w)' /\ Stepped(w)) =>
            store' = store /\ published' = published]_vars

\* one update was refused for its If-Match header "abc" while another, on a stored
\* customer, was refused for a version that is not the current one
C17_Witness ==
    \E a, b \in Workers :
        /\ BadIfMatch(a) /\ tasks[a].if_match = Some(<<"a", "b", "c">>)
        /\ status_code(tasks[a].op, tasks[a].result) = 400
        /\ tasks[b].op = "update" /\ tasks[b].pc = "done"
        /\ tasks[b].result = "ConcurrencyConflict"
        /\ status_code(tasks[b].op, tasks[b].result) = 409

\* ---------------------------------------------------------------------- C18
\* C18: when repo.update_client returns the customer, each of email and first_name
\* that the payload carries holds the payload's value, each one the payload leaves
\* out holds the value it had before, and orders_count and last_order_date, which no
\* payload carries, are as before.
C18_PartialUpdate ==
    [][\A w \in Workers : UpdateReturns(w) =>
         LET id   == Val(tasks[w].cid)
             data == tasks[w].data IN
         /\ store'[id].email =
                IF data.email = None THEN store[id].email ELSE Val(data.email)
         /\ store'[id].first_name =
                IF data.first_name = None THEN store[id].first_name ELSE Val(data.first_name)
         /\ store'[id].orders_count = store[id].orders_count
         /\ store'[id].last_order_date = store[id].last_order_date]_vars

\* an update that carried only first_name wrote it and left the email it had read
C18_Witness ==
    \E w \in Workers :
        /\ tasks[w].op = "update" /\ tasks[w].pc = "done" /\ tasks[w].wrote
        /\ tasks[w].data.email = None /\ tasks[w].data.first_name = Some("Bob")
        /\ tasks[w].snap.first_name # "Bob"
        /\ Val(tasks[w].cid) \in DOMAIN store
        /\ store[Val(tasks[w].cid)].first_name = "Bob"
        /\ store[Val(tasks[w].cid)].email = tasks[w].snap.email

\* ---------------------------------------------------------------------- C19
\* the update of w commits in this step, its payload carries the email of another
\* stored customer, and its own row is as the update read it
DuplicateUpdate(w) ==
    LET id == Val(tasks[w].cid) IN
    /\ tasks[w].op = "update" /\ tasks[w].pc = "update_commit"
    /\ tasks'[w].pc # "update_commit"
    /\ tasks[w].data.email # None
    /\ \E other \in DOMAIN store \ {id} : store[other].email = Val(tasks[w].data.email)
    /\ id \in DOMAIN store /\ store[id] = tasks[w].snap

\* C19: an update that sets a customer's email to the email of another stored
\* customer fails with EmailAlreadyExists; every row, the updated one with its
\* version included, is as before, and no customer.updated is published.
C19_DuplicateEmailUpdate ==
    [][\A w \in Workers : DuplicateUpdate(w) =>
         /\ tasks'[w].pc = "done" /\ tasks'[w].result = "EmailAlreadyExists"
         /\ tasks'[w].pubs = 0 /\ ~tasks'[w].wrote
         /\ store' = store /\ published' = published]_vars

\* an update to another customer's email was refused, and both rows are as they were
C19_Witness ==
    \E w \in Workers :
        LET id == Val(tasks[w].cid) IN
        /\ tasks[w].op = "update" /\ tasks[w].pc = "done"
        /\ tasks[w].result = "EmailAlreadyExists" /\ tasks[w].pubs = 0
        /\ id \in DOMAIN store /\ store[id] = tasks[w].snap
        /\ \E other \in DOMAIN store \ {id} :
             /\ store[other].email = Val(tasks[w].data.email)
             /\ store[other].version = 1
        /\ published = << >>

\* ---------------------------------------------------------------------- C20
\* the create of w commits its INSERT in this step
Creating(w) ==
    /\ tasks[w].op = "create" /\ tasks[w].pc = "create"
    /\ tasks'[w].pc # "create" /\ tasks'[w].wrote

\* C20: the row a create commits has version 1, orders_count 0 and no
\* last_order_date, under an id that no customer stored at that moment has; the rows
\* already stored are left as they are.
C20_InitialState ==
    [][\A w \in Workers : Creating(w) =>
         LET id == Val(tasks'[w].cid) IN
         /\ id \notin DOMAIN store
         /\ DOMAIN store' = DOMAIN store \cup {id}
         /\ \A other \in DOMAIN store : store'[other] = store[other]
         /\ store'[id].version = 1
         /\ store'[id].orders_count = 0
         /\ store'[id].last_order_date = None
         /\ store'[id].email = Val(tasks[w].data.email)]_vars

\* a customer was created beside a stored one and is in its initial state
C20_Witness ==
    \E w \in Workers :
        LET id == Val(tasks[w].cid) IN
        /\ tasks[w].op = "create" /\ tasks[w].pc = "done" /\ tasks[w].wrote
        /\ id \in DOMAIN store
        /\ store[id].version = 1 /\ store[id].orders_count = 0
        /\ store[id].last_order_date = None
        /\ \E other \in DOMAIN store : other # id

\* ---------------------------------------------------------------------- C21
\* C21 as stated: a create that stored its row has published a customer.created
\* naming that row, and the payload the service builds for it carries at least the
\* keys id, email, first_name and last_name.
C21_CreatedPayload ==
    \A w \in Workers :
        (tasks[w].op = "create" /\ tasks[w].pc = "done" /\ tasks[w].wrote) =>
            /\ \E i \in DOMAIN published :
                 published[i] = CustomerEvent("customer.created", Val(tasks[w].cid))
            /\ {"id", "email", "first_name", "last_name"} \subseteq CreatedPayloadAttrs

\* ---------------------------------------------------------------------- C22
Lower == <<"a", "b", "c", "d", "e", "f", "g", "h", "i", "j", "k", "l", "m",
           "n", "o", "p", "q", "r", "s", "t", "u", "v", "w", "x", "y", "z">>
Upper == <<"A", "B", "C", "D", "E", "F", "G", "H", "I", "J", "K", "L", "M",
           "N", "O", "P", "Q", "R", "S", "T", "U", "V", "W", "X", "Y", "Z">>

\* text without its leading and trailing blanks
RECURSIVE Trimmed(_)
Trimmed(s) ==
    IF s = << >> THEN s
    ELSE IF Head(s) = " " THEN Trimmed(Tail(s))
    ELSE IF s[Len(s)] = " " THEN Trimmed(SubSeq(s, 1, Len(s) - 1))
    ELSE s

\* text with its lower-case letters turned to upper case
UpperCased(s) ==
    [ i \in DOMAIN s |->
        IF \E k \in DOMAIN Lower : Lower[k] = s[i]
        THEN Upper[CHOOSE k \in DOMAIN Lower : Lower[k] = s[i]]
        ELSE s[i] ]

\* the country code the claim expects to be stored for an input
Normalised(s) ==
    LET u == UpperCased(Trimmed(s)) IN
    IF Len(u) > 2 THEN SubSeq(u, 1, 2) ELSE u

\* C22 as stated: a create that carries a country_code is not turned away for it, and
\* the row it stores holds the input trimmed, upper-cased and cut to two characters.
C22_CountryCodeNormalised ==
    /\ [](\A w \in Workers :
            (tasks[w].op = "create" /\ tasks[w].data.country_code # None) =>
                tasks[w].result # "RequestValidationError")
    /\ [][\A w \in Workers : (Creating(w) /\ tasks[w].data.country_code # None) =>
            store'[Val(tasks'[w].cid)].country_code =
                Some(Normalised(Val(tasks[w].data.country_code)))]_vars

\* ---------------------------------------------------------------------- C23
\* the handle step of a customer.validate_request by worker w
Validating(w) ==
    /\ tasks[w].op = "customer.validate_request" /\ tasks[w].pc = "handle"
    /\ tasks'[w].pc # "handle"

\* C23: a customer.validate_request whose customer_id names a stored customer is
\* answered with one order.customer_validated for its order and customer, and one
\* without a customer_id, or naming no stored customer, with one order.rejected for
\* its order; either way exactly one event is handed to the publisher and no step of
\* the handler changes the store.
C23_ValidateRequest ==
    /\ [][\A w \in Workers : Validating(w) =>
            /\ store' = store
            /\ tasks'[w].pc = "publish"
            /\ tasks'[w].event =
                 IF tasks[w].cid # None /\ Val(tasks[w].cid) \in DOMAIN store
                 THEN ValidatedEvent(tasks[w].order_id, tasks[w].cid)
                 ELSE [tasks'[w].event EXCEPT !.rk = "order.rejected",
                                              !.order_id = tasks[w].order_id,
                                              !.customer_id = None]]_vars
    /\ [][\A w \in Workers :
            (tasks[w].op = "customer.validate_request" /\ tasks[w].pc = "publish"
                /\ tasks'[w].pc # "publish") =>
                    /\ store' = store
                    /\ published' = Append(published, tasks[w].event)
                    /\ tasks'[w].pc = "done" /\ tasks'[w].event = tasks[w].event]_vars
    /\ [](\A w \in Workers :
            (tasks[w].op = "customer.validate_request" /\ tasks[w].pc = "done") =>
                tasks[w].pubs = 1 /\ ~tasks[w].wrote)

\* one request was answered with a validation and another with a rejection
C23_Witness ==
    \E v, r \in Workers :
        /\ tasks[v].op = "customer.validate_request" /\ tasks[v].pc = "done"
        /\ tasks[v].found /\ tasks[v].event.rk = "order.customer_validated"
        /\ tasks[r].op = "customer.validate_request" /\ tasks[r].pc = "done"
        /\ ~tasks[r].found /\ tasks[r].event.rk = "order.rejected"
        /\ Len(published) = 2

\* ---------------------------------------------------------------------- C24
\* C24 as stated: an order event (order.created, order.confirmed, order.cancelled,
\* order.deleted) that found its customer never ends in a version mismatch, whatever
\* the row's version and whoever writes the row meanwhile: its effect is committed.
C24_OrderEventsBypassVersionGuard ==
    \A w \in Workers :
        (tasks[w].op \in OrderKeys /\ tasks[w].found) =>
            tasks[w].result # "StaleDataError"

\* ---------------------------------------------------------------------- C25
\* C25 as stated: a delivery whose body is no JSON, whatever its routing key, is
\* dropped: its unit of work writes no row and hands no event to the publisher.
C25_MalformedDropped ==
    \A w \in Workers :
        tasks[w].raw => (~tasks[w].wrote /\ tasks[w].pubs = 0)

\* ---------------------------------------------------------------------- C26
\* the routing keys whose handlers answer nothing
QuietKeys == {"order.confirmed", "order.cancelled", "order.deleted", "order.rejected"}

\* worker w takes a step of the handler of such an event
QuietStep(w) ==
    /\ tasks[w].op \in QuietKeys /\ tasks[w].pc \in {"handle", "commit"}
    /\ tasks'[w].pc # tasks[w].pc

\* the event of w names no customer, or one the store does not hold
CustomerMissing(w) ==
    Falsy(tasks[w].cid) \/ Val(tasks[w].cid) \notin DOMAIN store

\* C26: the handlers of order.confirmed, order.cancelled, order.deleted and
\* order.rejected hand no event to the publisher, whatever the payload and whether or
\* not the customer exists; and when the event names no customer, or none the store
\* holds, the handler ends at once and leaves the store as it was.
C26_OnlyCreatedRejects ==
    /\ [][\A w \in Workers : QuietStep(w) =>
            /\ published' = published
            /\ tasks'[w].pc # "publish"
            /\ (tasks[w].pc = "handle" /\ CustomerMissing(w)) =>
                  (store' = store /\ tasks'[w].pc = "done" /\ ~tasks'[w].wrote)]_vars
    /\ [](\A w \in Workers : tasks[w].op \in QuietKeys => tasks[w].pubs = 0)

\* an order.confirmed ended without finding its customer, and an order.rejected ended
C26_Witness ==
    \E c, r \in Workers :
        /\ tasks[c].op = "order.confirmed" /\ tasks[c].pc = "done"
        /\ tasks[c].cid # None /\ tasks[c].order_id # None /\ ~tasks[c].found
        /\ tasks[r].op = "order.rejected" /\ tasks[r].pc = "done"
        /\ published = << >>

\* ---------------------------------------------------------------------- C27
\* worker w takes a step of a create, an update or a delete
ServiceStep(w) ==
    /\ tasks[w].op \in {"create", "update", "delete"}
    /\ tasks[w].pc \notin {"idle", "done"}
    /\ tasks'[w].pc # tasks[w].pc

\* C27: no step of a create, an update or a delete changes the orders_count, the
\* last_order_date or the created_at of a customer that is stored before and after
\* it, whatever the request body names; and no step of an update adds a row, removes
\* one or moves one to another id.
C27_DerivedFieldsNotWritable ==
    [][\A w \in Workers : ServiceStep(w) =>
        /\ \A id \in DOMAIN store \cap DOMAIN store' :
              /\ store'[id].orders_count = store[id].orders_count
              /\ store'[id].last_order_date = store[id].last_order_date
              /\ store'[id].created_at = store[id].created_at
        /\ tasks[w].op = "update" => DOMAIN store' = DOMAIN store]_vars

\* an update was committed to a customer that has orders, and left them alone
C27_Witness ==
    \E w \in Workers :
        LET id == Val(tasks[w].cid) IN
        /\ tasks[w].op = "update" /\ tasks[w].pc = "done" /\ tasks[w].wrote
        /\ id \in DOMAIN store
        /\ store[id].orders_count = 2 /\ store[id].last_order_date = Some("2024-01-01")
        /\ store[id].version = 4

\* ---------------------------------------------------------------------- C28
\* worker w takes a step of the handler of an inbound event
HandlerStep(w) ==
    /\ tasks[w].op \in HandledKeys
    /\ tasks[w].pc \in {"handle", "commit", "publish"}
    /\ tasks'[w].pc # tasks[w].pc

\* C28: no step of an inbound event handler adds or removes a customer row; of the
\* row its event names it changes at most orders_count, last_order_date and version
\* (email, first_name, country_code and created_at stay), and every other row it
\* leaves exactly as it was.
C28_ReconcilerStatisticsOnly ==
    [][\A w \in Workers : HandlerStep(w) =>
        /\ DOMAIN store' = DOMAIN store
        /\ \A id \in DOMAIN store :
              /\ store'[id].email = store[id].email
              /\ store'[id].first_name = store[id].first_name
              /\ store'[id].country_code = store[id].country_code
              /\ store'[id].created_at = store[id].created_at
              /\ Some(id) # tasks[w].cid => store'[id] = store[id]]_vars

\* an order.confirmed was counted for one of two stored customers
C28_Witness ==
    \E w \in Workers :
        /\ tasks[w].op = "order.confirmed" /\ tasks[w].pc = "done" /\ tasks[w].wrote
        /\ DOMAIN store = {1, 2}
        /\ store[1].orders_count > 0 /\ store[2].orders_count = 0

\* ---------------------------------------------------------------------- C29
HttpOps == {"create", "update", "delete", "read"}

\* the role the route of `op` asks for
RoleOf(op) == IF op = "read" THEN ROLE_READ ELSE ROLE_WRITE

\* the caller of w's request is a user the service can name who holds the role
Entitled(w) ==
    /\ tasks[w].caller.creds = "user"
    /\ RoleOf(tasks[w].op) \in tasks[w].caller.roles

\* w's request was stopped before its route: it read no row, wrote none, published
\* nothing and holds no unit of work open
Stopped(w) ==
    /\ tasks[w].pc = "done"
    /\ ~tasks[w].found /\ ~tasks[w].wrote /\ tasks[w].pubs = 0

\* the step that takes a request and turns it away
TurningAway(w) ==
    /\ tasks'[w] # tasks[w]
    /\ tasks'[w].op \in HttpOps /\ tasks'[w].result \in {"Unauthorized", "Forbidden"}

\* C29 as stated: a request of a caller who does not hold the route's role is
\* stopped with 403, and with 401 only when it carries no credentials at all.
C29_Original ==
    \A w \in Workers :
        (tasks[w].op \in HttpOps /\ ~Entitled(w)) =>
            /\ Stopped(w)
            /\ status_code(tasks[w].op, tasks[w].result) =
                 IF tasks[w].caller.creds = "none" THEN 401 ELSE 403

\* C29: a POST, PUT or DELETE goes past its gate only for a user whose roles hold the
\* write role, and a GET only for one whose roles hold the read role.  Any other
\* request is stopped before its route: the answer is 403 for a user without the
\* role, and 401 when the request carries no credentials or a bearer token that does
\* not verify; the step that turns it away leaves store and publisher alone.
C29_CapabilityGate ==
    /\ [](\A w \in Workers :
            tasks[w].op \in HttpOps =>
                IF Entitled(w)
                THEN tasks[w].result \notin {"Unauthorized", "Forbidden"}
                ELSE /\ Stopped(w)
                     /\ status_code(tasks[w].op, tasks[w].result) =
                          IF tasks[w].caller.creds = "user" THEN 403 ELSE 401)
    /\ [][\A w \in Workers : TurningAway(w) =>
            (store' = store /\ published' = published)]_vars

\* a reader's POST was answered 403 while a writer's POST stored its customer
C29_Witness ==
    \E a, b \in Workers :
        /\ tasks[a].op = "create" /\ tasks[a].caller.roles = {ROLE_READ}
        /\ tasks[a].pc = "done" /\ tasks[a].result = "Forbidden"
        /\ tasks[b].op = "create" /\ tasks[b].caller.roles = {ROLE_WRITE}
        /\ tasks[b].pc = "done" /\ tasks[b].wrote

\* ---------------------------------------------------------------------- C30
\* the update of w sets no field, carries no If-Match, and found its customer
EmptyUpdate(w) ==
    /\ tasks[w].op = "update" /\ tasks[w].data = NoData
    /\ tasks[w].expected = None /\ tasks[w].found

\* C30 as stated: an update that sets no field, applied to an existing customer,
\* succeeds and has written nothing: the row keeps every field, version included.
C30_EmptyUpdateNoOp ==
    \A w \in Workers :
        (EmptyUpdate(w) /\ tasks[w].pc = "done") =>
            (tasks[w].result = "ok" /\ ~tasks[w].wrote)

\* ---------------------------------------------------------------------- C31
\* the handle step of an order.confirmed of worker w whose payload has no order_id
ConfirmingUnnamed(w) ==
    /\ tasks[w].op = "order.confirmed" /\ tasks[w].pc = "handle"
    /\ tasks[w].order_id = None
    /\ tasks'[w].pc # "handle"

\* C31: an order.confirmed without order_id ends in its first step, also when its
\* customer_id names a stored customer: that step changes no row and hands nothing
\* to the publisher, the handler looks no customer up, and it never publishes.
C31_ConfirmedWithoutOrderId ==
    /\ [][\A w \in Workers : ConfirmingUnnamed(w) =>
            /\ store' = store /\ published' = published
            /\ tasks'[w].pc = "done" /\ tasks'[w].result = "ok"
            /\ ~tasks'[w].found /\ ~tasks'[w].wrote]_vars
    /\ [](\A w \in Workers :
            (tasks[w].op = "order.confirmed" /\ tasks[w].order_id = None) =>
                tasks[w].pc \in {"handle", "done"} /\ tasks[w].pubs = 0)

\* an order.confirmed without order_id for a stored customer was handled
C31_Witness ==
    \E w \in Workers :
        /\ tasks[w].op = "order.confirmed" /\ tasks[w].pc = "done"
        /\ tasks[w].order_id = None /\ ~tasks[w].raw
        /\ tasks[w].cid # None /\ Val(tasks[w].cid) \in DOMAIN store
        /\ store[Val(tasks[w].cid)].orders_count = 0

\* ---------------------------------------------------------------------- C32
\* the order event of w carries what its handler asks for before it looks the
\* customer up
LooksUp(w) ==
    /\ tasks[w].op \in OrderKeys
    /\ ~Falsy(tasks[w].cid)
    /\ tasks[w].op = "order.confirmed" => ~Falsy(tasks[w].order_id)

\* the handler of w is through with its session
HandlerThrough(w) == tasks[w].pc \in {"publish", "done"}

\* C32: a handler of an order event that found its customer has called db.commit()
\* exactly once and db.rollback() never when it is through; one whose lookup ended in
\* NotFound has called db.rollback() exactly once and db.commit() never; one that
\* returned early, for want of a customer_id or an order_id, has called neither.
C32_CommitRollbackDiscipline ==
    \A w \in Workers :
        tasks[w].op \in OrderKeys =>
            /\ (HandlerThrough(w) /\ tasks[w].found) =>
                  (tasks[w].commits = 1 /\ tasks[w].rollbacks = 0)
            /\ (HandlerThrough(w) /\ LooksUp(w) /\ ~tasks[w].found) =>
                  (tasks[w].commits = 0 /\ tasks[w].rollbacks = 1)
            /\ ~LooksUp(w) => (tasks[w].commits = 0 /\ tasks[w].rollbacks = 0)
            /\ ~HandlerThrough(w) => (tasks[w].commits = 0 /\ tasks[w].rollbacks = 0)

\* an order.cancelled named a customer the store does not hold and was rolled back
C32_Witness ==
    \E w \in Workers :
        /\ tasks[w].op = "order.cancelled" /\ tasks[w].pc = "done"
        /\ tasks[w].cid # None /\ ~tasks[w].found
        /\ tasks[w].rollbacks = 1 /\ tasks[w].commits = 0

\* ---------------------------------------------------------------------- C33
\* the unit of work of w stands before a write that would leave the ids, versions
\* or counts the model follows
AtBound(w) ==
    /\ ~Free(w) /\ tasks[w].pc # "publish"
    /\ \/ NextKey > MaxId
       \/ tasks[w].snap.version >= MaxVersion
       \/ tasks[w].snap.orders_count >= MaxCount
    /\ ~ENABLED Internal(w)

\* no unit of work is under way and no event of the service's own awaits delivery
Quiescent ==
    \A w \in Workers :
        /\ Free(w) \/ AtBound(w)
        /\ ~(tasks[w].pc = "done" /\ tasks[w].broker = "published")

\* C33: the events the service publishes come back to its queue, and handling a
\* delivery under one of its own routing keys takes one step that changes no row and
\* hands nothing to the publisher; so after the requests and messages sent from
\* outside the service comes to rest, for good, with finitely many events published.
C33_NoEventLoop ==
    /\ [][\A w \in Workers :
            (tasks[w].op \in OutboundKeys /\ tasks[w].pc = "handle"
                /\ tasks'[w].pc # "handle") =>
                    /\ store' = store /\ published' = published
                    /\ tasks'[w].pc = "done" /\ tasks'[w].pubs = 0]_vars
    /\ <>[]Quiescent

\* the service handled the customer.deleted it had published itself
C33_Witness ==
    \E w \in Workers :
        /\ tasks[w].op = "customer.deleted" /\ tasks[w].pc = "done"
        /\ tasks[w].cid # None /\ Val(tasks[w].cid) \notin DOMAIN store
        /\ \E i \in DOMAIN published : published[i].rk = "customer.deleted"

\* ---------------------------------------------------------------------- C34
\* C34: a delivery whose handler raised is acknowledged, not rejected or requeued,
\* and the consumer loop runs on: while a unit of work may still be started, the
\* next delivery is dispatched to the first free worker.
C34_HandlerFailureIsolation ==
    \A w \in Workers : FailedMessage(tasks[w]) =>
        /\ message_process(tasks[w]) = "ack"
        /\ ConsumerRunning
        /\ started < MaxOps => \E u \in Workers : ENABLED consumer_handler(u)

\* a delivery was dispatched to its handler right after the handler of the delivery
\* before it had raised
C34_Witness ==
    \E w \in Workers :
        /\ tasks[w].after_failure
        /\ tasks[w].op \in OrderKeys /\ tasks[w].pc = "done" /\ tasks[w].result = "ok"
        /\ tasks[w].found

\* ---------------------------------------------------------------------- C35
\* the step of w is the commit of an order event that changes a row's orders_count
\* or last_order_date
OrderEventWrites(w, id) ==
    /\ tasks[w].op \in OrderKeys /\ tasks'[w].pc # tasks[w].pc
    /\ id \in DOMAIN store /\ id \in DOMAIN store'
    /\ \/ store'[id].orders_count # store[id].orders_count
       \/ store'[id].last_order_date # store[id].last_order_date

\* the order event of u has changed the customer the update of w names, and the
\* update carries the version that event had read
CarriesVersionBefore(w, u) ==
    /\ tasks[w].op = "update" /\ tasks[u].op \in OrderKeys
    /\ tasks[u].wrote /\ tasks[u].cid = tasks[w].cid
    /\ tasks[w].expected = Some(tasks[u].snap.version)
    /\ Val(tasks[w].cid) \in DOMAIN store

\* C35: the commit of an order event that changes orders_count or last_order_date
\* raises the row's version by exactly 1, and an update that looks the customer up
\* after that commit with the version the event had read as its expected version
\* ends in ConcurrencyConflict and writes nothing.
C35_OrderEventsAdvanceVersion ==
    /\ [][store' # store => \A w \in Workers, id \in 1..MaxId :
            OrderEventWrites(w, id) => store'[id].version = store[id].version + 1]_vars
    /\ [][\A w, u \in Workers :
            (tasks[w].pc = "update_get" /\ tasks'[w].pc # "update_get"
                /\ CarriesVersionBefore(w, u)) =>
                    /\ tasks'[w].pc = "done" /\ tasks'[w].result = "ConcurrencyConflict"
                    /\ store' = store]_vars

\* an order.confirmed raised the count at version 1, and the update sent with
\* If-Match 1 after it was refused
C35_Witness ==
    \E w, u \in Workers :
        /\ CarriesVersionBefore(w, u)
        /\ tasks[u].op = "order.confirmed" /\ tasks[u].pc = "done"
        /\ tasks[w].pc = "done" /\ tasks[w].result = "ConcurrencyConflict"
        /\ tasks[w].snap.version = tasks[u].snap.version + 1
        /\ tasks[w].snap.orders_count = tasks[u].snap.orders_count + 1

\* ---------------------------------------------------------------------- C36
\* the two units of work of the behaviour are order.confirmed deliveries with an
\* order_id for customer id, both over, and the customer was found by both
TwoConfirmationsOver(id) ==
    /\ started = 2 /\ id \in DOMAIN store
    /\ \A w \in Workers :
        /\ tasks[w].op = "order.confirmed" /\ tasks[w].pc = "done"
        /\ tasks[w].order_id # None /\ tasks[w].cid = Some(id) /\ tasks[w].found

\* the count the customer had before either delivery
CountBefore ==
    IF tasks[1].snap.orders_count <= tasks[2].snap.orders_count
    THEN tasks[1].snap.orders_count ELSE tasks[2].snap.orders_count

\* C36: two order.confirmed deliveries with an order_id for the same stored
\* customer, handled in any interleaving with nothing else at work, leave
\* orders_count exactly 2 higher than it began.
C36_NoLostIncrement ==
    \A id \in 1..MaxId :
        TwoConfirmationsOver(id) => store[id].orders_count = CountBefore + 2

\* ---------------------------------------------------------------------- C37
\* the update of w reached CustomerService.update and is past its database work
ServiceUpdateOver(w) ==
    /\ tasks[w].op = "update" /\ Settled(w)
    /\ tasks[w].result \notin {"Unauthorized", "Forbidden", "ValueError"}

\* C37: with an update and a delete of the same customer at work, the update ends in
\* success (its commit counted as such), NotFound or ConcurrencyConflict (or
\* EmailAlreadyExists for an email in use), never in another failure, and once the
\* delete has committed the id names no row.
C37_UpdateRacingDelete ==
    \A w, u \in Workers :
        (tasks[w].op = "update" /\ tasks[u].op = "delete" /\ tasks[u].cid = tasks[w].cid) =>
            /\ ServiceUpdateOver(w) =>
                  \/ Returned(w)
                  \/ tasks[w].result \in {"NotFound", "ConcurrencyConflict", "EmailAlreadyExists"}
            /\ tasks[u].wrote => Val(tasks[u].cid) \notin DOMAIN store

\* ---------------------------------------------------------------------- C38
\* the customer with this id was stored by a create of this behaviour
CreatedHere(id) ==
    \E w \in Workers :
        tasks[w].op = "create" /\ tasks[w].wrote /\ tasks[w].cid = Some(id)

\* the i-th publish_message call carries the event rk of customer id
PublishedAt(i, rk, id) ==
    published[i].rk = rk /\ published[i].customer_id = Some(id)

\* C38: for a customer created by the service, customer.created is published before
\* every customer.updated and customer.deleted of its id, and no customer.updated
\* of an id follows its customer.deleted.
C38_LifecycleOrder ==
    \A id \in 1..MaxId, i \in DOMAIN published :
        /\ (CreatedHere(id) /\ (PublishedAt(i, "customer.updated", id)
                                \/ PublishedAt(i, "customer.deleted", id))) =>
                \E j \in 1..(i - 1) : PublishedAt(j, "customer.created", id)
        /\ PublishedAt(i, "customer.deleted", id) =>
                \A j \in DOMAIN published : j > i => ~PublishedAt(j, "customer.updated", id)

\* ---------------------------------------------------------------------- C39
\* C39: the session of a request or of a delivery is closed when its unit of
\* work is over, and when the unit of work ended with an exception the session was
\* rolled back exactly once.
C39_SessionLifecycle ==
    \A w \in Workers :
        (SessionOpened(tasks[w]) /\ tasks[w].pc = "done") =>
            /\ SessionClosed(tasks[w])
            /\ tasks[w].result # "ok" => tasks[w].rollbacks = 1

\* ---------------------------------------------------------------------- C40
\* the lifespan of the instance, whose record says which startup steps failed
IsLifespan(l) == tasks[l].op = "lifespan"

\* startup is over: lifespan has reached its yield
StartedUp(l) == IsLifespan(l) /\ tasks[l].pc \in {"yield", "stopped"}

\* C40 as stated: after a startup in which the database check, the schema
\* initialisation or the RabbitMQ connection failed, no consumer is started.
C40_Original ==
    \A l \in Workers :
        (StartedUp(l) /\ tasks[l].failures \cap {"database", "schema", "rabbitmq"} # {}) =>
            ~tasks[l].consumer

\* C40: whichever of the database check, the schema initialisation and the RabbitMQ
\* connection fail, lifespan reaches its yield and the application serves; when the
\* RabbitMQ connection failed no consumer is started, no delivery is handled and
\* every publish_message call returns without reaching an exchange, the request
\* that made it still ending well; and the step after the yield ends the lifespan
\* whether or not disconnect raised.
C40_StartupResilience ==
    /\ \A l \in Workers : IsLifespan(l) => <>StartedUp(l)
    /\ [](\A l \in Workers : (IsLifespan(l) /\ "rabbitmq" \in tasks[l].failures) =>
            /\ ~tasks[l].consumer /\ ~tasks[l].exchange
            /\ \A w \in Workers :
                /\ tasks[w].op \notin HandledKeys
                /\ tasks[w].pubs > 0 => (tasks[w].broker = "no exchange" /\ tasks[w].result = "ok"))
    /\ [][\A l \in Workers :
            (IsLifespan(l) /\ tasks[l].pc = "yield" /\ tasks'[l].pc # "yield") =>
                tasks'[l].pc = "stopped"]_vars

\* every startup step failed, the instance served a DELETE whose customer.deleted
\* went nowhere, and stopped although disconnect raised
C40_Witness ==
    \E l, w \in Workers :
        /\ IsLifespan(l) /\ tasks[l].pc = "stopped"
        /\ tasks[l].failures = {"database", "schema", "rabbitmq", "disconnect"}
        /\ tasks[w].op = "delete" /\ tasks[w].pc = "done" /\ tasks[w].result = "ok"
        /\ tasks[w].broker = "no exchange" /\ Val(tasks[w].cid) \notin DOMAIN store

====
